---- MODULE Spec2Model ----
(***************************************************************************)
(* Model of the csgb-targets dashboard core: the financial-year calendar   *)
(* (utils/fy), the per-order calculations (utils/calculations), the RAG    *)
(* classifiers (utils/rag), the dashboard aggregations and the settings    *)
(* singleton.                                                              *)
(*                                                                         *)
(* A JavaScript Date is modelled at day granularity as its day number      *)
(* (days since 1 Jan 1970), computed as ECMAScript's MakeDay computes it.  *)
(* A JavaScript number that is a quotient of integers is modelled as the   *)
(* exact fraction <<numerator, denominator>> with denominator > 0.         *)
(***************************************************************************)
EXTENDS Integers, Sequences, FiniteSets, TLC

VARIABLES settings, call, ordersTable, productionTable, imp,
          notes, noteSaves, usersTable, site

vars == <<settings, call, ordersTable, productionTable, imp,
          notes, noteSaves, usersTable, site>>

\* The tables and the import request: untouched by the dashboards and the settings
importVars == <<ordersTable, productionTable, imp>>

\* The dashboard notes with the saves in progress, the users, and the request to
\* the order and user pages: untouched by the dashboards, the settings and the imports
siteVars == <<notes, noteSaves, usersTable, site>>

(***************************************************************************)
(* Bounds of the model.                                                    *)
(***************************************************************************)
\* Calendar years whose days are used as dates: FirstYear .. FirstYear + NumYears - 1
FirstYear == 2023

NumYears == 2

LastYear == FirstYear + NumYears - 1

(***************************************************************************)
(* JavaScript values                                                       *)
(***************************************************************************)
\* A raw field value (a form field, a CSV cell, a database column) is Missing
\* (undefined, null or '') or Num(n), a number or a numeric string of value n.
Missing == <<>>

Num(n) == <<"num", n>>

\* The result of a parse is NaN or <<n>> for the number n
NaN == <<>>

\* Text(s) is a string that does not start with a number
Text(s) == <<"text", s>>

\* parseInt(x)
parseInt(x) == IF x = Missing THEN NaN ELSE IF x[1] = "num" THEN <<x[2]>> ELSE NaN

\* parseFloat(x) (amounts are whole currency units here)
parseFloat(x) == IF x = Missing THEN NaN ELSE IF x[1] = "num" THEN <<x[2]>> ELSE NaN

\* p || b for a parse result p: b when p is NaN or 0
OrElse(p, b) == IF p = NaN THEN b ELSE IF p[1] = 0 THEN b ELSE p[1]

(***************************************************************************)
(* Exact fractions for JavaScript quotients                                *)
(***************************************************************************)
\* n / d for d # 0, kept as a fraction with a positive denominator
Quot(n, d) == IF d < 0 THEN <<0 - n, 0 - d>> ELSE <<n, d>>

\* a whole number as a fraction
Whole(n) == <<n, 1>>

\* a >= b
GE(a, b) == a[1] * b[2] >= b[1] * a[2]

\* a <= b
LE(a, b) == a[1] * b[2] <= b[1] * a[2]

\* a * k for an integer k
Times(a, k) == <<a[1] * k, a[2]>>

\* a === b for two quotients
EQ(a, b) == a[1] * b[2] = b[1] * a[2]

(***************************************************************************)
(* JavaScript Date at day granularity (ECMAScript 21.4.1)                   *)
(***************************************************************************)
DaysInYear(y) ==
    IF y % 4 # 0 THEN 365
    ELSE IF y % 100 # 0 THEN 366
    ELSE IF y % 400 # 0 THEN 365
    ELSE 366

DayFromYear(y) ==
    365 * (y - 1970) + ((y - 1969) \div 4) - ((y - 1901) \div 100) + ((y - 1601) \div 400)

\* Number of days of the year y before its month m (0-based)
DaysBeforeMonth(y, m) ==
    LET leap == IF DaysInYear(y) = 366 THEN 1 ELSE 0
        tab == <<0, 31, 59 + leap, 90 + leap, 120 + leap, 151 + leap, 181 + leap,
                 212 + leap, 243 + leap, 273 + leap, 304 + leap, 334 + leap, 365 + leap>>
    IN tab[m + 1]

\* MakeDay(year, month, date): month and date may lie outside their usual range
MakeDay(year, month, date) ==
    LET ym == year + (month \div 12)
        mn == month % 12
    IN DayFromYear(ym) + DaysBeforeMonth(ym, mn) + date - 1

\* new Date(year, monthIndex, day): a two-digit year means 1900 + year
NewDate(year, month, date) ==
    MakeDay(IF year >= 0 /\ year <= 99 THEN 1900 + year ELSE year, month, date)

\* Date.prototype.getFullYear
getFullYear(t) ==
    CHOOSE y \in (FirstYear - 2)..(LastYear + 3) : DayFromYear(y) <= t /\ t < DayFromYear(y + 1)

\* Date.prototype.getMonth (0-based)
getMonth(t) ==
    LET y == getFullYear(t)
        dayInYear == t - DayFromYear(y)
    IN CHOOSE m \in 0..11 : DaysBeforeMonth(y, m) <= dayInYear /\ dayInYear < DaysBeforeMonth(y, m + 1)

\* Date.prototype.getDate (1-based day of the month)
getDate(t) ==
    LET y == getFullYear(t)
    IN t - DayFromYear(y) - DaysBeforeMonth(y, getMonth(t)) + 1

\* Every date of the modelled years
Dates == NewDate(FirstYear, 0, 1)..NewDate(LastYear, 11, 31)

(***************************************************************************)
(* Financial Year Utilities (utils/fy)                                     *)
(***************************************************************************)
MONTH_NAMES == <<"Jul", "Aug", "Sep", "Oct", "Nov", "Dec", "Jan", "Feb", "Mar", "Apr", "May", "Jun">>

\* MONTH_NAMES.indexOf(monthName): 0-based, -1 when absent
IndexOfMonth(monthName) ==
    IF \E i \in 1..Len(MONTH_NAMES) : MONTH_NAMES[i] = monthName
    THEN (CHOOSE i \in 1..Len(MONTH_NAMES) : MONTH_NAMES[i] = monthName) - 1
    ELSE -1

\* `${fyStartYear}/${String(fyEndYear).slice(-2)}`: the two parts of the label
FYLabel(fyStartYear, fyEndYear) == <<fyStartYear, fyEndYear % 100>>

\* parseInt(fyLabel.split('/')[0])
LabelStartYear(fyLabel) == fyLabel[1]

getFYForDateAfterJuly(date) ==
    LET year == getFullYear(date)
        month == getMonth(date) + 1
        fyStartYear == IF month > 7 THEN year ELSE year - 1
        fyEndYear == IF month > 7 THEN year + 1 ELSE year
    IN [label |-> FYLabel(fyStartYear, fyEndYear),
        start |-> NewDate(fyStartYear, 6, 1),
        end |-> NewDate(fyEndYear, 5, 30)]

getFYForDate(date) ==
    LET year == getFullYear(date)
        month == getMonth(date) + 1
        fyStartYear == IF month >= 7 THEN year ELSE year - 1
        fyEndYear == IF month >= 7 THEN year + 1 ELSE year
    IN [label |-> FYLabel(fyStartYear, fyEndYear),
        start |-> NewDate(fyStartYear, 6, 1),
        end |-> NewDate(fyEndYear, 5, 30)]

getFYMonth(date) ==
    LET month == getMonth(date) + 1
    IN IF month >= 7 THEN MONTH_NAMES[(month - 7) + 1] ELSE MONTH_NAMES[(month + 5) + 1]

\* threw: the call ended in throw new Error(`Invalid month name`)
getFYDateRangeThirtyDays(fyLabel, monthName) ==
    LET startYear == LabelStartYear(fyLabel)
        monthIndex == IndexOfMonth(monthName)
        year == IF monthIndex < 6 THEN startYear ELSE startYear + 1
        month == IF monthIndex < 6 THEN monthIndex + 6 ELSE monthIndex - 6
    IN IF monthIndex = -1 THEN [threw |-> TRUE, start |-> 0, end |-> 0]
       ELSE [threw |-> FALSE, start |-> NewDate(year, month, 1), end |-> NewDate(year, month, 30)]

getFYDateRange(fyLabel, monthName) ==
    LET startYear == LabelStartYear(fyLabel)
        monthIndex == IndexOfMonth(monthName)
        year == IF monthIndex < 6 THEN startYear ELSE startYear + 1
        month == IF monthIndex < 6 THEN monthIndex + 6 ELSE monthIndex - 6
        lastDay == getDate(NewDate(year, month + 1, 0))
    IN IF monthIndex = -1 THEN [threw |-> TRUE, start |-> 0, end |-> 0]
       ELSE [threw |-> FALSE, start |-> NewDate(year, month, 1),
             end |-> NewDate(year, month, lastDay)]

getAllFYMonths == MONTH_NAMES

isDateInFYMonth(date, fyLabel, monthName) ==
    LET range == getFYDateRange(fyLabel, monthName)
    IN date >= range.start /\ date <= range.end

\* The labels of the financial years that hold a modelled date
FYLabels == {FYLabel(y, y + 1) : y \in (FirstYear - 1)..LastYear}

(***************************************************************************)
(* Per-Order Calculations (utils/calculations)                             *)
(***************************************************************************)
calculateOrderMetricsFallbackZero(order, baselineFloorPerBox) ==
    LET boxRrpTotal == OrElse(parseFloat(order.box_rrp_total), 0)
        boxNetTotal == OrElse(parseFloat(order.box_net_total), 0)
        boxBuildCostTotal == OrElse(parseFloat(order.box_build_cost_total), 0)
        boxesQty == OrElse(parseInt(order.boxes_qty), 0)
        expectedBaseline == boxRrpTotal - boxBuildCostTotal
        actualBaseline == boxNetTotal - boxBuildCostTotal
        discountImpact == expectedBaseline - actualBaseline
    IN [expectedBaseline |-> expectedBaseline,
        actualBaseline |-> actualBaseline,
        contributionPerBox |->
            IF boxesQty > 0 THEN Quot(actualBaseline, boxesQty) ELSE Whole(0),
        discountImpact |-> discountImpact,
        discountBoxesLost |->
            IF baselineFloorPerBox > 0 THEN Quot(discountImpact, baselineFloorPerBox)
            ELSE Whole(0)]

calculateOrderMetricsFromExpected(order, baselineFloorPerBox) ==
    LET boxRrpTotal == OrElse(parseFloat(order.box_rrp_total), 0)
        boxNetTotal == OrElse(parseFloat(order.box_net_total), 0)
        boxBuildCostTotal == OrElse(parseFloat(order.box_build_cost_total), 0)
        boxesQty == OrElse(parseInt(order.boxes_qty), 1)
        expectedBaseline == boxRrpTotal - boxBuildCostTotal
        actualBaseline == boxNetTotal - boxBuildCostTotal
        discountImpact == expectedBaseline - actualBaseline
    IN [expectedBaseline |-> expectedBaseline,
        actualBaseline |-> actualBaseline,
        contributionPerBox |->
            IF boxesQty > 0 THEN Quot(expectedBaseline, boxesQty) ELSE Whole(0),
        discountImpact |-> discountImpact,
        discountBoxesLost |->
            IF baselineFloorPerBox > 0 THEN Quot(discountImpact, baselineFloorPerBox)
            ELSE Whole(0)]

calculateOrderMetrics(order, baselineFloorPerBox) ==
    LET boxRrpTotal == OrElse(parseFloat(order.box_rrp_total), 0)
        boxNetTotal == OrElse(parseFloat(order.box_net_total), 0)
        boxBuildCostTotal == OrElse(parseFloat(order.box_build_cost_total), 0)
        boxesQty == OrElse(parseInt(order.boxes_qty), 1)
        expectedBaseline == boxRrpTotal - boxBuildCostTotal
        actualBaseline == boxNetTotal - boxBuildCostTotal
        discountImpact == expectedBaseline - actualBaseline
    IN [expectedBaseline |-> expectedBaseline,
        actualBaseline |-> actualBaseline,
        contributionPerBox |->
            IF boxesQty > 0 THEN Quot(actualBaseline, boxesQty) ELSE Whole(0),
        discountImpact |-> discountImpact,
        discountBoxesLost |->
            IF baselineFloorPerBox > 0 THEN Quot(discountImpact, baselineFloorPerBox)
            ELSE Whole(0)]

(***************************************************************************)
(* RAG (Traffic Light) Logic (utils/rag)                                   *)
(***************************************************************************)
\* The default value of the parameter amberFloorPct: 0.90
DefaultAmberFloorPct == <<90, 100>>

getRAGStatusStrict(value, target, amberFloorPct) ==
    LET floorPct == IF amberFloorPct = Missing THEN DefaultAmberFloorPct ELSE amberFloorPct
    IN IF target = 0 THEN "green"
       ELSE LET percentage == Quot(value, target)
            IN IF ~LE(percentage, Whole(1)) THEN "green"
               ELSE IF GE(percentage, floorPct) THEN "amber"
               ELSE "red"

getRAGStatusSwapped(value, target, amberFloorPct) ==
    LET floorPct == IF amberFloorPct = Missing THEN DefaultAmberFloorPct ELSE amberFloorPct
    IN IF target = 0 THEN "green"
       ELSE LET percentage == Quot(value, target)
            IN IF GE(percentage, Whole(1)) THEN "green"
               ELSE IF GE(percentage, floorPct) THEN "red"
               ELSE "amber"

\* value and target are whole numbers; amberFloorPct is a fraction (0.90 is <<90, 100>>)
getRAGStatus(value, target, amberFloorPct) ==
    LET floorPct == IF amberFloorPct = Missing THEN DefaultAmberFloorPct ELSE amberFloorPct
    IN IF target = 0 THEN "green"
       ELSE LET percentage == Quot(value, target)
            IN IF GE(percentage, Whole(1)) THEN "green"
               ELSE IF GE(percentage, floorPct) THEN "amber"
               ELSE "red"

getDiscountRAGStrict(boxesLost) ==
    IF ~GE(boxesLost, Whole(1)) THEN "green"
    ELSE IF ~GE(boxesLost, Whole(3)) THEN "amber"
    ELSE "red"

getDiscountRAG(boxesLost) ==
    IF LE(boxesLost, Whole(1)) THEN "green"
    ELSE IF LE(boxesLost, Whole(3)) THEN "amber"
    ELSE "red"

getCostComplianceRAGStrict(percentage) ==
    IF GE(percentage, Whole(95)) THEN "green"
    ELSE IF ~LE(percentage, Whole(90)) THEN "amber"
    ELSE "red"

getCostComplianceRAG(percentage) ==
    IF GE(percentage, Whole(95)) THEN "green"
    ELSE IF GE(percentage, Whole(90)) THEN "amber"
    ELSE "red"

getQualityRAG(percentage) ==
    IF LE(percentage, Whole(3)) THEN "green"
    ELSE IF LE(percentage, Whole(5)) THEN "amber"
    ELSE "red"

\* `rag-${ragStatus}`
getRAGClass(ragStatus) == <<"rag-", ragStatus>>

\* A status text is the sequence of its words
formatStatusTextBlunt(value, target, ragStatus) ==
    IF ragStatus = "green" THEN <<"On", "target">>
    ELSE IF ragStatus = "amber" THEN <<"Watch">>
    ELSE <<"Missed", "target">>

formatStatusText(value, target, ragStatus) ==
    IF ragStatus = "green" THEN <<"On", "target">>
    ELSE IF ragStatus = "amber" THEN <<"Watch">>
    ELSE <<"Below", "target">>

(***************************************************************************)
(* Dashboard Aggregations (utils/aggregations)                             *)
(***************************************************************************)
\* A settings row without monthly targets (null, or the {} of the dashboards'
\* fallback settings) has a map with no keys: every lookup is undefined.
getMonthlyBoxTarget(st, fyMonth) ==
    LET targets == st.monthly_box_targets_json
    IN IF fyMonth \notin DOMAIN targets THEN 0
       ELSE OrElse(parseInt(Num(targets[fyMonth])), 0)

\* new Date(x) of a stored DATE column: the same day
DateOf(x) == x

\* array.reduce((sum, row) => sum + (parseInt(row[field]) || 0), 0)
RECURSIVE SumField(_, _)
SumField(rows, field) ==
    IF rows = <<>> THEN 0
    ELSE OrElse(parseInt(Head(rows)[field]), 0) + SumField(Tail(rows), field)

\* array.reduce((sum, row) => sum + (parseFloat(row[field]) || 0), 0)
RECURSIVE SumFloatField(_, _)
SumFloatField(rows, field) ==
    IF rows = <<>> THEN 0
    ELSE OrElse(parseFloat(Head(rows)[field]), 0) + SumFloatField(Tail(rows), field)

\* orderMetrics.reduce((sum, m) => sum + m[field], 0) over the mapped orders
RECURSIVE SumMetric(_, _, _)
SumMetric(rows, baselineFloorPerBox, field) ==
    IF rows = <<>> THEN 0
    ELSE calculateOrderMetrics(Head(rows), baselineFloorPerBox)[field]
         + SumMetric(Tail(rows), baselineFloorPerBox, field)

\* startDate.setDate(startDate.getDate() - 28) on a copy of endDate
TwentyEightDaysBefore(endDate) ==
    MakeDay(getFullYear(endDate), getMonth(endDate), getDate(endDate) - 28)

calculateRolling4WeekBoxes(orders, endDate) ==
    LET startDate == TwentyEightDaysBefore(endDate)
        InWindow(order) == /\ DateOf(order.order_date) >= startDate
                           /\ DateOf(order.order_date) <= endDate
    IN SumField(SelectSeq(orders, InWindow), "boxes_qty")

\* d > 0 ? (n / d) * 100 : fallback, with the fallback left at 0
PercentOrZero(n, d, fallback) ==
    IF d > 0 THEN Times(Quot(n, d), 100) ELSE Whole(0)

\* d > 0 ? (n / d) * 100 : fallback
PercentOr(n, d, fallback) ==
    IF d > 0 THEN Times(Quot(n, d), 100) ELSE Whole(fallback)

calculateRolling4WeekProduction(productionData, endDate) ==
    LET startDate == TwentyEightDaysBefore(endDate)
        InWindow(prod) == /\ DateOf(prod.production_date) >= startDate
                          /\ DateOf(prod.production_date) <= endDate
    IN SumField(SelectSeq(productionData, InWindow), "boxes_built")

calculateInstallsPerWeek(orders, dateRange) ==
    LET startDate == TwentyEightDaysBefore(dateRange.end)
        IsInstall(order) == /\ DateOf(order.order_date) >= startDate
                            /\ DateOf(order.order_date) <= dateRange.end
                            /\ OrElse(parseFloat(order.install_revenue), 0) > 0
    IN Quot(SumField(SelectSeq(orders, IsInstall), "boxes_qty"), 4)

\* A JSONB value that is a list of {reason, boxes} tags
ReasonsArray(tags) == <<"json", "array", tags>>

\* r.reason || 'unknown'
reasonOf(r) ==
    IF r.reason = Missing THEN "unknown"
    ELSE IF r.reason[2] = "" THEN "unknown" ELSE r.reason[2]

\* One tag counted into reasonMap, whose entries keep the order of insertion
countReason(reasonMap, r) ==
    LET reason == reasonOf(r)
        boxes == OrElse(parseInt(r.boxes), 0)
    IN IF \E i \in 1..Len(reasonMap) : reasonMap[i].reason = reason
       THEN [i \in 1..Len(reasonMap) |->
                IF reasonMap[i].reason = reason
                THEN [reason |-> reason, count |-> reasonMap[i].count + 1,
                      boxes |-> reasonMap[i].boxes + boxes]
                ELSE reasonMap[i]]
       ELSE Append(reasonMap, [reason |-> reason, count |-> 1, boxes |-> boxes])

RECURSIVE countReasons(_, _)
countReasons(reasonMap, reasons) ==
    IF reasons = <<>> THEN reasonMap
    ELSE countReasons(countReason(reasonMap, Head(reasons)), Tail(reasons))

\* The forEach over the batches: one without a list, or whose value is not a
\* list, is passed over
RECURSIVE buildReasonMap(_, _)
buildReasonMap(reasonMap, productionData) ==
    IF productionData = <<>> THEN reasonMap
    ELSE LET cell == Head(productionData).over_cost_reasons_json
             counted == IF cell = Missing THEN reasonMap
                        ELSE IF cell[2] = "array" THEN countReasons(reasonMap, cell[3])
                        ELSE reasonMap
         IN buildReasonMap(counted, Tail(productionData))

\* An entry put into a list sorted by boxes descending, after its equals
RECURSIVE insertByBoxes(_, _)
insertByBoxes(sorted, entry) ==
    IF sorted = <<>> THEN <<entry>>
    ELSE IF Head(sorted).boxes >= entry.boxes
         THEN <<Head(sorted)>> \o insertByBoxes(Tail(sorted), entry)
         ELSE <<entry>> \o sorted

RECURSIVE sortByBoxes(_, _)
sortByBoxes(sorted, entries) ==
    IF entries = <<>> THEN sorted
    ELSE sortByBoxes(insertByBoxes(sorted, Head(entries)), Tail(entries))

\* .slice(0, 5) with no sort before it
firstFive(entries) == SubSeq(entries, 1, IF Len(entries) < 5 THEN Len(entries) ELSE 5)

\* .sort((a, b) => b.boxes - a.boxes).slice(0, 5)
topFive(entries) ==
    LET sorted == sortByBoxes(<<>>, entries)
    IN SubSeq(sorted, 1, IF Len(sorted) < 5 THEN Len(sorted) ELSE 5)

aggregateCostLeakageReasons(productionData) ==
    topFive(buildReasonMap(<<>>, productionData))

\* boxesSold - boxesBuilt, floored at zero
BacklogClamped(boxesSold, boxesBuilt) ==
    IF boxesSold < boxesBuilt THEN 0 ELSE boxesSold - boxesBuilt

\* const backlog = boxesSold - boxesBuilt
Backlog(boxesSold, boxesBuilt) == boxesSold - boxesBuilt

aggregateProductionMetrics(productionData, orders, st, fyLabel, fyMonth) ==
    LET dateRange == getFYDateRange(fyLabel, fyMonth)
        InRange(prod) == /\ DateOf(prod.production_date) >= dateRange.start
                         /\ DateOf(prod.production_date) <= dateRange.end
        monthProduction == SelectSeq(productionData, InRange)
        boxesBuilt == SumField(monthProduction, "boxes_built")
        boxesOverCost == SumField(monthProduction, "boxes_over_cost")
        reworkBoxes == SumField(monthProduction, "rework_boxes")
        UpToEnd(order) == DateOf(order.order_date) <= dateRange.end
        boxesSold == SumField(SelectSeq(orders, UpToEnd), "boxes_qty")
        InstalledInMonth(order) == /\ DateOf(order.order_date) >= dateRange.start
                                   /\ DateOf(order.order_date) <= dateRange.end
                                   /\ OrElse(parseFloat(order.install_revenue), 0) > 0
        installedBoxes == SumField(SelectSeq(orders, InstalledInMonth), "boxes_qty")
        collectedBoxes == boxesBuilt
    IN [boxesBuilt |-> boxesBuilt,
        costCompliancePct |->
            PercentOr(boxesBuilt - boxesOverCost, boxesBuilt, 100),
        costLeakage |-> [boxesOverCost |-> boxesOverCost,
                         reasons |-> aggregateCostLeakageReasons(monthProduction)],
        flowMetrics |->
            [boxesBuilt |-> boxesBuilt,
             rolling4WeekAvg |->
                 Quot(calculateRolling4WeekProduction(productionData, dateRange.end), 4),
             installLoad |->
                 [installedBoxes |-> installedBoxes,
                  installsPerWeek |-> calculateInstallsPerWeek(orders, dateRange),
                  capacity |->
                      OrElse(parseInt(Num(st.install_capacity_high_season_per_week)), 15)],
             backlog |-> Backlog(boxesSold, boxesBuilt)],
        qualityMetrics |->
            [reworkBoxes |-> reworkBoxes,
             reworkRate |-> PercentOr(reworkBoxes, boxesBuilt, 0)],
        installShape |->
            [installedBoxes |-> installedBoxes,
             collectedBoxes |-> collectedBoxes,
             installShapePct |-> PercentOr(installedBoxes, collectedBoxes, 0)]]

\* The filter of the month's orders: the end of the range is left out
orderInRangeBeforeEnd(order, dateRange) ==
    /\ DateOf(order.order_date) >= dateRange.start
    /\ DateOf(order.order_date) < dateRange.end

\* The filter of the month's orders
orderInRange(order, dateRange) ==
    /\ DateOf(order.order_date) >= dateRange.start
    /\ DateOf(order.order_date) <= dateRange.end

aggregateSalesMetrics(orders, st, fyLabel, fyMonth) ==
    LET baselineFloorPerBox == OrElse(parseFloat(Num(st.baseline_floor_per_box)), 700)
        monthlyBoxTarget == getMonthlyBoxTarget(st, fyMonth)
        baselineTarget == monthlyBoxTarget * baselineFloorPerBox
        dateRange == getFYDateRange(fyLabel, fyMonth)
        InMonth(order) == orderInRange(order, dateRange)
        monthOrders == SelectSeq(orders, InMonth)
        boxesSold == SumField(monthOrders, "boxes_qty")
        baselineActual == SumMetric(monthOrders, baselineFloorPerBox, "actualBaseline")
        discountImpactTotal == SumMetric(monthOrders, baselineFloorPerBox, "discountImpact")
        totalRrp == SumFloatField(monthOrders, "box_rrp_total")
        boxRevenue == SumFloatField(monthOrders, "box_net_total")
        installRevenue == SumFloatField(monthOrders, "install_revenue")
        extrasRevenue == SumFloatField(monthOrders, "extras_revenue")
        totalSalesValue == boxRevenue + installRevenue + extrasRevenue
        ordersCount == Len(monthOrders)
    IN IF dateRange.threw THEN [threw |-> TRUE]
       ELSE
       [threw |-> FALSE,
        boxesSold |-> boxesSold,
        baselineActual |-> baselineActual,
        baselineTarget |-> baselineTarget,
        averageDiscountPct |-> PercentOr(discountImpactTotal, totalRrp, 0),
        discountImpactTotal |-> discountImpactTotal,
        discountBoxesLostTotal |->
            IF baselineFloorPerBox > 0 THEN Quot(discountImpactTotal, baselineFloorPerBox)
            ELSE Whole(0),
        observedMix |->
            [totalSalesValue |-> totalSalesValue,
             boxRevenue |-> boxRevenue,
             installRevenue |-> installRevenue,
             extrasRevenue |-> extrasRevenue,
             boxMixPct |-> PercentOr(boxRevenue, totalSalesValue, 0),
             installMixPct |-> PercentOr(installRevenue, totalSalesValue, 0),
             extrasMixPct |-> PercentOr(extrasRevenue, totalSalesValue, 0)],
        shapeMetrics |->
            [ordersCount |-> ordersCount,
             avgBoxesPerOrder |-> IF ordersCount > 0 THEN Quot(boxesSold, ordersCount)
                                  ELSE Whole(0),
             avgBaselinePerBox |-> IF boxesSold > 0 THEN Quot(baselineActual, boxesSold)
                                   ELSE Whole(0),
             rolling4WeekBoxesPerWeek |->
                 Quot(calculateRolling4WeekBoxes(orders, dateRange.end), 4)]]

(***************************************************************************)
(* CSV Parsing and Validation Utilities (utils/csv)                        *)
(***************************************************************************)
\* A CSV cell is Missing (an empty cell or a column the file does not have),
\* Num(n), Text(s), or one of the following:
\*   DateCell(d)   a date string that JavaScript and the database both read as day d
\*   LooseDate(d)  a string that new Date() reads as day d and the DATE column
\*                 rejects (such as '2024')
\*   Email(u)      an address of the shape local@domain.tld, belonging to account u
\*   Json(k)       a JSON text of kind k: "array", "object" or "number"
DateCell(d) == <<"date", d>>

LooseDate(d) == <<"loosedate", d>>

Email(u) == <<"email", u>>

Json(k) == <<"json", k>>

\* !cell for a cell of a parsed CSV row
Falsy(cell) == cell = Missing

\* !isNaN(new Date(cell).getTime())
DateParses(cell) == cell # Missing /\ cell[1] \in {"date", "loosedate"}

\* /^[^\s@]+@[^\s@]+\.[^\s@]+$/.test(cell)
EmailShape(cell) == cell # Missing /\ cell[1] = "email"

\* <<m>> when the condition holds: one errors.push(m)
PushIf(cond, m) == IF cond THEN <<m>> ELSE <<>>

\* The messages prefixed with the 0-based index of the row
RowErrorsByIndex(errors, rowNumber) ==
    [i \in 1..Len(errors) |-> <<"Row", rowNumber - 2, errors[i]>>]

\* errors.map(err => `Row ${rowNumber}: ${err}`)
RowErrors(errors, rowNumber) ==
    [i \in 1..Len(errors) |-> <<"Row", rowNumber, errors[i]>>]

\* The messages pushed by validateOrderRow, in their order
orderRowErrors(row) ==
    LET boxesQty == parseInt(row.boxes_qty)
    IN PushIf(Falsy(row.order_date), "order_date is required")
       \o PushIf(Falsy(row.boxes_qty), "boxes_qty is required")
       \o PushIf(Falsy(row.box_rrp_total), "box_rrp_total is required")
       \o PushIf(Falsy(row.box_net_total), "box_net_total is required")
       \o PushIf(Falsy(row.box_build_cost_total), "box_build_cost_total is required")
       \o PushIf(boxesQty = NaN \/ (boxesQty # NaN /\ boxesQty[1] < 1),
                 "boxes_qty must be a positive integer")
       \o PushIf(parseFloat(row.box_rrp_total) = NaN, "box_rrp_total must be a number")
       \o PushIf(parseFloat(row.box_net_total) = NaN, "box_net_total must be a number")
       \o PushIf(parseFloat(row.box_build_cost_total) = NaN,
                 "box_build_cost_total must be a number")
       \o PushIf(parseFloat(IF Falsy(row.install_revenue) THEN Num(0)
                            ELSE row.install_revenue) = NaN,
                 "install_revenue must be a number")
       \o PushIf(parseFloat(IF Falsy(row.extras_revenue) THEN Num(0)
                            ELSE row.extras_revenue) = NaN,
                 "extras_revenue must be a number")
       \o PushIf(~Falsy(row.order_date) /\ ~DateParses(row.order_date),
                 "order_date must be a valid date (YYYY-MM-DD)")
       \o PushIf(~Falsy(row.sales_rep_email) /\ ~EmailShape(row.sales_rep_email),
                 "sales_rep_email must be a valid email address")

\* The validation stops at the first message
validateOrderRowFirstOnly(row, rowNumber) ==
    LET errors == orderRowErrors(row)
    IN [valid |-> Len(errors) = 0,
        errors |-> RowErrors(IF errors = <<>> THEN <<>> ELSE <<Head(errors)>>, rowNumber)]

validateOrderRow(row, rowNumber) ==
    LET errors == orderRowErrors(row)
    IN [valid |-> Len(errors) = 0,
        errors |-> RowErrors(errors, rowNumber)]

\* JSON.parse(cell) throws
JsonThrows(cell) == cell[1] \notin {"json", "num"}

\* Array.isArray(JSON.parse(cell))
JsonIsArray(cell) == cell[1] = "json" /\ cell[2] = "array"

\* The messages pushed by validateProductionRow, in their order
productionRowErrors(row) ==
    LET boxesBuilt == parseInt(row.boxes_built)
        boxesOverCost == parseInt(IF Falsy(row.boxes_over_cost) THEN Num(0)
                                  ELSE row.boxes_over_cost)
        reworkBoxes == parseInt(IF Falsy(row.rework_boxes) THEN Num(0)
                                ELSE row.rework_boxes)
        Negative(p) == p = NaN \/ (p # NaN /\ p[1] < 0)
    IN PushIf(Falsy(row.production_date), "production_date is required")
       \o PushIf(Falsy(row.boxes_built), "boxes_built is required")
       \o PushIf(Negative(boxesBuilt), "boxes_built must be a non-negative integer")
       \o PushIf(Negative(boxesOverCost), "boxes_over_cost must be a non-negative integer")
       \o PushIf(Negative(reworkBoxes), "rework_boxes must be a non-negative integer")
       \o PushIf(~Falsy(row.production_date) /\ ~DateParses(row.production_date),
                 "production_date must be a valid date (YYYY-MM-DD)")
       \o (IF Falsy(row.over_cost_reasons_json) THEN <<>>
           ELSE IF JsonThrows(row.over_cost_reasons_json)
                THEN <<"over_cost_reasons_json must be valid JSON">>
                ELSE PushIf(~JsonIsArray(row.over_cost_reasons_json),
                            "over_cost_reasons_json must be a valid JSON array"))

validateProductionRow(row, rowNumber) ==
    LET errors == productionRowErrors(row)
    IN [valid |-> Len(errors) = 0,
        errors |-> RowErrors(errors, rowNumber)]

\* No sales rep: sales_rep_id is null
NoRep == 0

\* The accounts of the users table
Users ==
    {[id |-> 1, email |-> "alice", role |-> "sales"],
     [id |-> 2, email |-> "bob", role |-> "sales"],
     [id |-> 3, email |-> "charlie", role |-> "production"],
     [id |-> 4, email |-> "diana", role |-> "director"]}

\* The roles of the accounts
Roles == {"sales", "production", "director"}

\* The label and the months the notes are written for, and the texts saved
NoteLabel == FYLabel(FirstYear, FirstYear + 1)

NoteMonths == {"Jul", "Feb"}

NoteTexts == {<<"text", "a">>, <<"text", "b">>}

\* UNIQUE(fy_label, fy_month, role): the keys of dashboard_notes
NoteKeys == [fy_label : {NoteLabel}, fy_month : NoteMonths, role : Roles]

KeyOf(row) == [fy_label |-> row.fy_label, fy_month |-> row.fy_month, role |-> row.role]

NoteRow(key, note) ==
    [fy_label |-> key.fy_label, fy_month |-> key.fy_month, role |-> key.role, note |-> note]

\* SELECT note FROM dashboard_notes WHERE fy_label = $1 AND fy_month = $2 AND role = ..
NotesAt(table, key) == {row \in table : KeyOf(row) = key}

\* The note of a key, or nothing when the key has no row
NoteOf(table, key) ==
    IF NotesAt(table, key) = {} THEN <<>> ELSE (CHOOSE row \in NotesAt(table, key) : TRUE).note

\* The sample notes of the seed: one per role for the month of the seeding
SeedNotes == {NoteRow([fy_label |-> NoteLabel, fy_month |-> "Jul", role |-> role],
                      <<"text", "seed">>) : role \in Roles}

\* The browser tabs that may have a production note save in progress
Savers == {"tab1", "tab2"}

(***************************************************************************)
(* State                                                                   *)
(***************************************************************************)
SeedTargets ==
    [m \in {MONTH_NAMES[i] : i \in 1..12} |->
        CASE m = "Jul" -> 60 [] m = "Aug" -> 70 [] m = "Sep" -> 80 [] m = "Oct" -> 90
          [] m = "Nov" -> 85 [] m = "Dec" -> 75 [] m = "Jan" -> 70 [] m = "Feb" -> 75
          [] m = "Mar" -> 85 [] m = "Apr" -> 90 [] m = "May" -> 80 [] m = "Jun" -> 60]

\* rag_amber_floor_pct is kept in hundredths: 90 is the stored 0.90
SeedSettings ==
    [baseline_floor_per_box |-> 700,
     yearly_box_target |-> 900,
     rag_amber_floor_pct |-> 90,
     monthly_box_targets_json |-> SeedTargets,
     install_capacity_high_season_per_week |-> 15,
     fy_start_month |-> 7]

\* The orders and production tables are empty before any entry or import
Init ==
    /\ settings = SeedSettings
    /\ call = [op |-> "none"]
    /\ ordersTable = <<>>
    /\ productionTable = <<>>
    /\ imp = [op |-> "none"]
    /\ notes = SeedNotes
    /\ noteSaves = [inflight |-> [slot \in Savers |-> [pc |-> "idle"]],
                    recent |-> [key \in NoteKeys |-> NoteOf(SeedNotes, key)],
                    last |-> [route |-> "none"]]
    /\ usersTable = Users
    /\ site = [op |-> "none", deleting |-> NoRep]

(***************************************************************************)
(* Settings Routes (Director Only)                                         *)
(***************************************************************************)
MonthNameSet == {MONTH_NAMES[i] : i \in 1..Len(MONTH_NAMES)}

\* Sum of a month -> number map over a set of months
RECURSIVE SumOver(_, _)
SumOver(f, S) ==
    IF S = {} THEN 0
    ELSE LET m == CHOOSE x \in S : TRUE IN f[m] + SumOver(f, S \ {m})

\* The month_<name> form fields a director submits (NaN: left empty)
MonthFormChoices ==
    {[m \in MonthNameSet |-> Num(SeedTargets[m])],
     [m \in MonthNameSet |-> Num(0)],
     [m \in MonthNameSet |-> IF m = "Jul" THEN Num(40) ELSE IF m = "Aug" THEN Missing ELSE Num(0)]}

YearlyChoices == {0, 40, 900}

FloorChoices == {0, 700}

StartMonthChoices == {4, 7}

\* POST /settings: the row after the request, and the response
PostSettingsUpdate(cur, body) ==
    LET monthlyTargets == [m \in MonthNameSet |-> OrElse(parseInt(body.months[m]), 0)]
        totalMonthlyTargets == SumOver(monthlyTargets, MonthNameSet)
        yearlyTarget == parseInt(body.yearly_box_target)
    IN IF yearlyTarget = NaN \/ <<totalMonthlyTargets>> # yearlyTarget
       THEN [row |-> cur, response |-> "error"]
       ELSE [row |-> [baseline_floor_per_box |-> parseFloat(body.baseline_floor_per_box)[1],
                      yearly_box_target |-> yearlyTarget[1],
                      rag_amber_floor_pct |-> parseFloat(body.rag_amber_floor_pct)[1],
                      monthly_box_targets_json |-> monthlyTargets,
                      install_capacity_high_season_per_week |->
                          parseInt(body.install_capacity_high_season_per_week)[1],
                      fy_start_month |-> parseInt(body.fy_start_month)[1]],
             response |-> "redirect"]

PostSettings ==
    /\ call.op = "none"
    /\ \E months \in MonthFormChoices, yearly \in YearlyChoices,
          floor \in FloorChoices, startMonth \in StartMonthChoices :
          LET body == [baseline_floor_per_box |-> Num(floor),
                       yearly_box_target |-> Num(yearly),
                       rag_amber_floor_pct |-> Num(90),
                       install_capacity_high_season_per_week |-> Num(15),
                       fy_start_month |-> Num(startMonth),
                       months |-> months]
              out == PostSettingsUpdate(settings, body)
          IN /\ settings' = out.row
             /\ call' = [op |-> "postSettings", body |-> body, result |-> out.response]
    /\ UNCHANGED importVars
    /\ UNCHANGED siteVars

(***************************************************************************)
(* Applications of the calendar functions                                  *)
(***************************************************************************)
\* The financial year and the fiscal month of one date, as the dashboards
\* compute them for the current date
CallFYOfDate ==
    /\ call.op = "none"
    /\ \E d \in Dates :
          call' = [op |-> "fyOfDate", date |-> d,
                   fy |-> getFYForDate(d), month |-> getFYMonth(d)]
    /\ UNCHANGED settings
    /\ UNCHANGED importVars
    /\ UNCHANGED siteVars

CallGetFYDateRange ==
    /\ call.op = "none"
    /\ \E L \in FYLabels, i \in 1..12 :
          call' = [op |-> "getFYDateRange", fyLabel |-> L, monthName |-> MONTH_NAMES[i],
                   result |-> getFYDateRange(L, MONTH_NAMES[i])]
    /\ UNCHANGED settings
    /\ UNCHANGED importVars
    /\ UNCHANGED siteVars

(***************************************************************************)
(* Applications of the calculations and the classifiers                    *)
(***************************************************************************)
QtyChoices == {Missing, Num(-2), Num(0), Num(1), Num(2), Num(3)}

RrpChoices == {Missing, Num(1000), Num(2800)}

NetChoices == {Num(900), Num(2600), Num(2800), Num(3000)}

CostChoices == {Num(0), Num(1400)}

FloorArgs == {0, 500, 700}

CallCalculateOrderMetrics ==
    /\ call.op = "none"
    /\ \E qty \in QtyChoices, rrp \in RrpChoices, net \in NetChoices,
          cost \in CostChoices, floor \in FloorArgs :
          LET order == [boxes_qty |-> qty, box_rrp_total |-> rrp,
                        box_net_total |-> net, box_build_cost_total |-> cost]
          IN call' = [op |-> "calculateOrderMetrics", order |-> order,
                      baselineFloorPerBox |-> floor,
                      result |-> calculateOrderMetrics(order, floor)]
    /\ UNCHANGED settings
    /\ UNCHANGED importVars
    /\ UNCHANGED siteVars

RagValues == {-100, 0, 560, 629, 630, 650, 699, 700, 701}

RagTargets == {-700, 0, 1, 700}

\* Amber floors; Missing stands for an omitted argument
AmberFloors == {Missing, <<0, 100>>, <<50, 100>>, <<90, 100>>, <<100, 100>>, <<110, 100>>}

CallGetRAGStatus ==
    /\ call.op = "none"
    /\ \E value \in RagValues, target \in RagTargets, amberFloorPct \in AmberFloors :
          call' = [op |-> "getRAGStatus", value |-> value, target |-> target,
                   amberFloorPct |-> amberFloorPct,
                   result |-> getRAGStatus(value, target, amberFloorPct)]
    /\ UNCHANGED settings
    /\ UNCHANGED importVars
    /\ UNCHANGED siteVars

\* The boxes status of a dashboard: the month's target is read from the settings
CallBoxesRAG ==
    /\ call.op = "none"
    /\ \E value \in RagValues, i \in 1..12 :
          LET monthlyBoxTarget == getMonthlyBoxTarget(settings, MONTH_NAMES[i])
              amberFloorPct == <<settings.rag_amber_floor_pct, 100>>
              status == getRAGStatus(value, monthlyBoxTarget, amberFloorPct)
          IN call' = [op |-> "boxesRAG", value |-> value, month |-> MONTH_NAMES[i],
                      monthlyBoxTarget |-> monthlyBoxTarget,
                      result |-> status]
    /\ UNCHANGED settings
    /\ UNCHANGED importVars
    /\ UNCHANGED siteVars

\* Equivalent boxes lost: a discount impact over a floor per box
BoxesLostChoices == {Quot(n, 700) : n \in {-200, 0, 200, 699, 700, 701, 2099, 2100, 2101}}

CallGetDiscountRAG ==
    /\ call.op = "none"
    /\ \E boxesLost \in BoxesLostChoices :
          call' = [op |-> "getDiscountRAG", boxesLost |-> boxesLost,
                   result |-> getDiscountRAG(boxesLost)]
    /\ UNCHANGED settings
    /\ UNCHANGED importVars
    /\ UNCHANGED siteVars

\* Rework rates: rework boxes over boxes built, times 100
ReworkRateChoices ==
    {Times(Quot(r, 1000), 100) : r \in {0, 29, 30, 31, 49, 50, 51, 1000}}

CallGetQualityRAG ==
    /\ call.op = "none"
    /\ \E percentage \in ReworkRateChoices :
          call' = [op |-> "getQualityRAG", percentage |-> percentage,
                   result |-> getQualityRAG(percentage)]
    /\ UNCHANGED settings
    /\ UNCHANGED importVars
    /\ UNCHANGED siteVars

StatusChoices == {"green", "amber", "red"}

CallFormatStatusText ==
    /\ call.op = "none"
    /\ \E value \in RagValues, target \in RagTargets, ragStatus \in StatusChoices :
          call' = [op |-> "formatStatusText", value |-> value, target |-> target,
                   ragStatus |-> ragStatus,
                   result |-> formatStatusText(value, target, ragStatus)]
    /\ UNCHANGED settings
    /\ UNCHANGED importVars
    /\ UNCHANGED siteVars

(***************************************************************************)
(* Application of the production aggregation                               *)
(***************************************************************************)
\* At most MaxBatches production rows are aggregated
MaxBatches == 2

\* The financial year and months asked for, and the dates of the rows
AggLabel == FYLabel(FirstYear, FirstYear + 1)

AggMonths == {"Feb"}

BatchDates == {NewDate(FirstYear + 1, 1, 1), NewDate(FirstYear + 1, 2, 1)}

BatchAmounts ==
    {[boxes_built |-> Num(0), boxes_over_cost |-> Missing, rework_boxes |-> Missing],
     [boxes_built |-> Num(0), boxes_over_cost |-> Num(2), rework_boxes |-> Num(1)],
     [boxes_built |-> Num(20), boxes_over_cost |-> Num(1), rework_boxes |-> Missing],
     [boxes_built |-> Num(20), boxes_over_cost |-> Num(2), rework_boxes |-> Num(1)],
     [boxes_built |-> Num(100), boxes_over_cost |-> Num(7), rework_boxes |-> Num(3)],
     [boxes_built |-> Num(100), boxes_over_cost |-> Missing, rework_boxes |-> Num(6)]}

BatchChoices ==
    {[production_date |-> d, boxes_built |-> a.boxes_built,
      boxes_over_cost |-> a.boxes_over_cost, over_cost_reasons_json |-> Missing,
      rework_boxes |-> a.rework_boxes] :
        d \in BatchDates, a \in BatchAmounts}

RECURSIVE SeqsUpTo(_, _)
SeqsUpTo(S, n) ==
    IF n = 0 THEN {<<>>}
    ELSE LET shorter == SeqsUpTo(S, n - 1)
         IN shorter \cup {Append(q, x) : q \in {r \in shorter : Len(r) = n - 1}, x \in S}

\* The orders read for the backlog: none, or one installed order of two boxes
\* dated on the first day of February
BacklogOrders ==
    {<<>>,
     <<[order_date |-> NewDate(FirstYear + 1, 1, 1), boxes_qty |-> Num(2),
        box_rrp_total |-> Num(2800), box_net_total |-> Num(2600),
        box_build_cost_total |-> Num(1400), install_revenue |-> Num(300),
        extras_revenue |-> Num(0)]>>}

\* The production dashboard's metrics and their statuses
CallAggregateProductionMetrics ==
    /\ call.op = "none"
    /\ \E productionData \in SeqsUpTo(BatchChoices, MaxBatches), orders \in BacklogOrders,
          fyMonth \in AggMonths :
          LET metrics == aggregateProductionMetrics(productionData, orders, settings,
                                                    AggLabel, fyMonth)
              monthlyBoxTarget == getMonthlyBoxTarget(settings, fyMonth)
          IN call' = [op |-> "aggregateProductionMetrics",
                      productionData |-> productionData, orders |-> orders,
                      fyLabel |-> AggLabel, fyMonth |-> fyMonth,
                      result |-> metrics,
                      boxesRAG |-> getRAGStatus(metrics.boxesBuilt, monthlyBoxTarget,
                                                <<settings.rag_amber_floor_pct, 100>>),
                      costComplianceRAG |-> getCostComplianceRAG(metrics.costCompliancePct),
                      qualityRAG |-> getQualityRAG(metrics.qualityMetrics.reworkRate)]
    /\ UNCHANGED settings
    /\ UNCHANGED importVars
    /\ UNCHANGED siteVars

(***************************************************************************)
(* Application of the sales aggregation                                    *)
(***************************************************************************)
\* At most MaxOrders orders are aggregated
MaxOrders == 2

SalesMonths == {"Jul", "Feb"}

\* The day before February, its first day, its last day and the day after it
OrderDates ==
    {NewDate(FirstYear + 1, 1, 1) - 1, NewDate(FirstYear + 1, 1, 1),
     NewDate(FirstYear + 1, 2, 1) - 1, NewDate(FirstYear + 1, 2, 1)}

\* Rows of the orders table: a discounted order, a give-away and an order with
\* install and extras revenue
OrderAmounts ==
    {[boxes_qty |-> Num(2), box_rrp_total |-> Num(2800), box_net_total |-> Num(2600),
      box_build_cost_total |-> Num(1400), install_revenue |-> Num(0),
      extras_revenue |-> Num(0)],
     [boxes_qty |-> Num(1), box_rrp_total |-> Num(0), box_net_total |-> Num(0),
      box_build_cost_total |-> Num(0), install_revenue |-> Num(0),
      extras_revenue |-> Num(0)],
     [boxes_qty |-> Num(1), box_rrp_total |-> Num(1000), box_net_total |-> Num(900),
      box_build_cost_total |-> Num(0), install_revenue |-> Num(300),
      extras_revenue |-> Num(100)]}

OrderChoices ==
    {[order_date |-> d, boxes_qty |-> a.boxes_qty, box_rrp_total |-> a.box_rrp_total,
      box_net_total |-> a.box_net_total, box_build_cost_total |-> a.box_build_cost_total,
      install_revenue |-> a.install_revenue, extras_revenue |-> a.extras_revenue] :
        d \in OrderDates, a \in OrderAmounts}

\* The sales dashboard's metrics and their statuses
CallAggregateSalesMetrics ==
    /\ call.op = "none"
    /\ \E orders \in SeqsUpTo(OrderChoices, MaxOrders), fyMonth \in SalesMonths :
          LET metrics == aggregateSalesMetrics(orders, settings, AggLabel, fyMonth)
              monthlyBoxTarget == getMonthlyBoxTarget(settings, fyMonth)
              amberFloorPct == <<settings.rag_amber_floor_pct, 100>>
          IN call' = [op |-> "aggregateSalesMetrics",
                      orders |-> orders,
                      fyLabel |-> AggLabel, fyMonth |-> fyMonth,
                      result |-> metrics,
                      boxesRAG |-> getRAGStatus(metrics.boxesSold, monthlyBoxTarget,
                                                amberFloorPct),
                      baselineRAG |-> getRAGStatus(metrics.baselineActual,
                                                   metrics.baselineTarget, amberFloorPct),
                      discountRAG |-> getDiscountRAG(metrics.discountBoxesLostTotal)]
    /\ UNCHANGED settings
    /\ UNCHANGED importVars
    /\ UNCHANGED siteVars

\* The response is sent and the computed value is dropped
Return ==
    /\ call.op # "none"
    /\ call' = [op |-> "none"]
    /\ UNCHANGED settings
    /\ UNCHANGED importVars
    /\ UNCHANGED siteVars

Next ==
    \/ PostSettings
    \/ CallFYOfDate
    \/ CallGetFYDateRange
    \/ CallCalculateOrderMetrics
    \/ CallGetRAGStatus
    \/ CallBoxesRAG
    \/ CallGetDiscountRAG
    \/ CallGetQualityRAG
    \/ CallFormatStatusText
    \/ CallAggregateProductionMetrics
    \/ CallAggregateSalesMetrics
    \/ Return

Spec == Init /\ [][Next]_vars

(***************************************************************************)
(* Application of the order row validation                                 *)
(***************************************************************************)
\* The cells of the rows handed to validateOrderRow
ValidateDates ==
    {Missing, DateCell(NewDate(FirstYear + 1, 1, 1)), LooseDate(NewDate(FirstYear + 1, 0, 1)),
     Text("soon")}

ValidateQtys == {Missing, Num(-1), Num(0), Num(1), Num(3), Text("two")}

ValidateAmounts == {Missing, Num(0), Num(2800), Text("n/a")}

ValidateOptionalAmounts == {Missing, Text("n/a")}

ValidateEmails == {Missing, Email("rep"), Text("rep-at-csgb")}

ValidateRows ==
    [order_date : ValidateDates,
     boxes_qty : ValidateQtys,
     box_rrp_total : ValidateAmounts,
     box_net_total : {Missing, Num(2600)},
     box_build_cost_total : {Num(1400), Text("n/a")},
     install_revenue : ValidateOptionalAmounts,
     extras_revenue : {Missing, Num(100)},
     sales_rep_email : ValidateEmails]

CallValidateOrderRow ==
    /\ call.op = "none"
    /\ \E row \in ValidateRows, i \in 0..1 :
          call' = [op |-> "validateOrderRow", row |-> row, rowNumber |-> i + 2,
                   result |-> validateOrderRow(row, i + 2)]
    /\ UNCHANGED settings
    /\ UNCHANGED importVars
    /\ UNCHANGED siteVars

NextValidate ==
    \/ CallValidateOrderRow
    \/ Return

SpecValidate == Init /\ [][NextValidate]_vars

(***************************************************************************)
(* CSV Import Routes                                                       *)
(*                                                                         *)
(* Two families of import handlers: the transactional one (parseOrdersCSV, *)
(* validateOrderRow, BEGIN ... COMMIT) and the upsert one (a try / catch   *)
(* per row, update by id).  A table is the sequence of its records in the  *)
(* order of their ids; of a record only the columns below are kept.        *)
(***************************************************************************)
\* SELECT id FROM users WHERE email = $1
UsersByEmail(cell) == {u \in Users : u.email = cell[2]}

\* SELECT id FROM users WHERE email = $1 AND role = $2
UsersByEmailAndRole(cell, role) == {u \in Users : u.email = cell[2] /\ u.role = role}

\* rows[0].id of a lookup that found an account
FirstId(found) == (CHOOSE u \in found : TRUE).id

\* The database takes the parameters of an order: order_date is a DATE and
\* boxes_qty an INTEGER with CHECK (boxes_qty >= 1); a NUMERIC takes any number
DbTakesOrder(row) ==
    /\ row.order_date # Missing /\ row.order_date[1] = "date"
    /\ parseInt(row.boxes_qty) # NaN /\ parseInt(row.boxes_qty)[1] >= 1

\* The record an INSERT or UPDATE of orders writes
OrderRecord(row, salesRepId) ==
    [order_date |-> row.order_date[2],
     sales_rep_id |-> salesRepId,
     boxes_qty |-> parseInt(row.boxes_qty)[1],
     box_rrp_total |-> parseFloat(row.box_rrp_total),
     box_net_total |-> parseFloat(row.box_net_total),
     box_build_cost_total |-> parseFloat(row.box_build_cost_total)]

\* The columns parseOrdersCSV asks of the header
OrderRequiredColumns ==
    {"order_date", "order_ref", "sales_rep_email", "boxes_qty", "box_rrp_total",
     "box_net_total", "box_build_cost_total"}

\* parseOrdersCSV(filePath): rejected when the header lacks a column
parseOrdersCSV(file) ==
    [rejected |-> OrderRequiredColumns \ file.headers # {},
     rows |-> file.rows]

\* The running importResult, the table, the outcome of each row so far, and
\* whether the transaction is in the aborted state or the loop was left by a throw
StartImport(table, total) ==
    [total |-> total, success |-> 0, failed |-> 0, errors |-> <<>>,
     table |-> table, outcome |-> <<>>, aborted |-> FALSE, thrown |-> FALSE]

\* importResult.failed++ and the errors pushed
RowFailed(acc, errors) ==
    [acc EXCEPT !.failed = @ + 1, !.errors = @ \o errors, !.outcome = Append(@, "failed")]

\* importResult.success++ after a statement that wrote the table
RowSucceeded(acc, table, how) ==
    [acc EXCEPT !.success = @ + 1, !.table = table, !.outcome = Append(@, how)]

\* The loop over the rows of the transactional order import.  inTransaction:
\* the pool ran every statement on the connection that ran BEGIN.
RECURSIVE ordersTransactionLoop(_, _, _, _)
ordersTransactionLoop(rows, i, acc, inTransaction) ==
    IF i > Len(rows) \/ acc.thrown THEN acc
    ELSE
    LET row == rows[i]
        rowNumber == (i - 1) + 2
        validation == validateOrderRow(row, rowNumber)
        hasEmail == ~Falsy(row.sales_rep_email)
        found == UsersByEmail(row.sales_rep_email)
        salesRepId == IF hasEmail THEN FirstId(found) ELSE NoRep
        next ==
            IF ~validation.valid THEN RowFailed(acc, validation.errors)
            ELSE IF hasEmail /\ acc.aborted
                 THEN [acc EXCEPT !.thrown = TRUE]
            ELSE IF hasEmail /\ found = {}
                 THEN RowFailed(acc, <<<<"Row", rowNumber, "Sales rep email not found">>>>)
            ELSE IF acc.aborted
                 THEN RowFailed(acc, <<<<"Row", rowNumber, "Database error">>>>)
            ELSE IF ~DbTakesOrder(row)
                 THEN [RowFailed(acc, <<<<"Row", rowNumber, "Database error">>>>)
                          EXCEPT !.aborted = inTransaction]
            ELSE RowSucceeded(acc, Append(acc.table, OrderRecord(row, salesRepId)),
                              "inserted")
    IN ordersTransactionLoop(rows, i + 1, next, inTransaction)

\* The response and the table after the request.  hardError: the page shows
\* `Import error` and no importResult.
ImportOutcome(acc, table, hardError) ==
    [hardError |-> hardError,
     total |-> IF hardError THEN 0 ELSE acc.total,
     success |-> IF hardError THEN 0 ELSE acc.success,
     failed |-> IF hardError THEN 0 ELSE acc.failed,
     errors |-> IF hardError THEN <<>> ELSE acc.errors,
     outcome |-> acc.outcome,
     table |-> table]

\* POST /csv/import/orders of the transactional family
importOrdersTransactional(file, table, inTransaction) ==
    LET parsed == parseOrdersCSV(file)
        acc == ordersTransactionLoop(parsed.rows, 1, StartImport(table, Len(parsed.rows)),
                                     inTransaction)
    IN IF parsed.rejected THEN ImportOutcome(StartImport(table, 0), table, TRUE)
       ELSE IF acc.thrown THEN ImportOutcome(acc, IF inTransaction THEN table ELSE acc.table,
                                             TRUE)
       ELSE ImportOutcome(acc, IF inTransaction /\ acc.aborted THEN table ELSE acc.table,
                          FALSE)

\* An import that never reads the id of a row
UpdateIdIgnored(row) == 0

\* row.id ? parseInt(row.id) : null, then (id && id > 0): the id to update, or 0
UpdateId(row) ==
    LET id == IF Falsy(row.id) THEN NaN ELSE parseInt(row.id)
    IN IF id # NaN /\ id[1] > 0 THEN id[1] ELSE 0

\* The loop over the rows of the upsert order import
RECURSIVE ordersUpsertLoop(_, _, _)
ordersUpsertLoop(rows, i, acc) ==
    IF i > Len(rows) THEN acc
    ELSE
    LET row == rows[i]
        rowNum == (i - 1) + 2
        Thrown(message) == RowFailed(acc, <<<<"Row", rowNum, "Row", rowNum, message>>>>)
        hasEmail == ~Falsy(row.sales_rep_email)
        found == UsersByEmailAndRole(row.sales_rep_email, "sales")
        salesRepId == IF hasEmail THEN FirstId(found) ELSE NoRep
        orderId == UpdateId(row)
        next ==
            IF \/ Falsy(row.order_date) \/ Falsy(row.boxes_qty) \/ Falsy(row.box_rrp_total)
               \/ Falsy(row.box_net_total) \/ Falsy(row.box_build_cost_total)
            THEN Thrown("Missing required fields")
            ELSE IF hasEmail /\ found = {} THEN Thrown("Sales rep not found")
            ELSE IF orderId > 0 /\ orderId \notin 1..Len(acc.table)
                 THEN Thrown("Order ID not found")
            ELSE IF ~DbTakesOrder(row)
                 THEN RowFailed(acc, <<<<"Row", rowNum, "database error">>>>)
            ELSE IF orderId > 0
                 THEN RowSucceeded(acc, [acc.table EXCEPT ![orderId] =
                                            OrderRecord(row, salesRepId)], "updated")
            ELSE RowSucceeded(acc, Append(acc.table, OrderRecord(row, salesRepId)),
                              "inserted")
    IN ordersUpsertLoop(rows, i + 1, next)

\* POST /csv/import/orders of the upsert family
importOrdersUpsert(file, table) ==
    LET acc == ordersUpsertLoop(file.rows, 1, StartImport(table, Len(file.rows)))
    IN ImportOutcome(acc, acc.table, FALSE)

\* The columns parseProductionCSV asks of the header
ProductionRequiredColumns == {"production_date", "boxes_built"}

\* parseProductionCSV(filePath): rejected when the header lacks a column
parseProductionCSV(file) ==
    [rejected |-> ProductionRequiredColumns \ file.headers # {},
     rows |-> file.rows]

\* The database takes the parameters of a production entry: production_date is
\* a DATE and boxes_built an INTEGER
DbTakesProduction(row) ==
    /\ row.production_date # Missing /\ row.production_date[1] = "date"
    /\ parseInt(row.boxes_built) # NaN

\* reasonsJson ? JSON.stringify(reasonsJson) : null, as the JSONB column keeps it:
\* the kind of the JSON value, or "null"
StoredReasons(cell) == IF Falsy(cell) THEN "null" ELSE cell[2]

\* The record an INSERT or UPDATE of production_boxes writes; overCost and rework
\* are the parsed counts
ProductionRecord(row, overCost, rework) ==
    [production_date |-> row.production_date[2],
     boxes_built |-> parseInt(row.boxes_built)[1],
     boxes_over_cost |-> overCost,
     over_cost_reasons_json |-> StoredReasons(row.over_cost_reasons_json),
     rework_boxes |-> rework]

\* The loop over the rows of the transactional production import
RECURSIVE productionTransactionLoop(_, _, _, _)
productionTransactionLoop(rows, i, acc, inTransaction) ==
    IF i > Len(rows) THEN acc
    ELSE
    LET row == rows[i]
        rowNumber == (i - 1) + 2
        validation == validateProductionRow(row, rowNumber)
        overCost == parseInt(IF Falsy(row.boxes_over_cost) THEN Num(0)
                             ELSE row.boxes_over_cost)[1]
        rework == parseInt(IF Falsy(row.rework_boxes) THEN Num(0) ELSE row.rework_boxes)[1]
        next ==
            IF ~validation.valid THEN RowFailed(acc, validation.errors)
            ELSE IF ~Falsy(row.over_cost_reasons_json)
                    /\ JsonThrows(row.over_cost_reasons_json)
                 THEN RowFailed(acc, <<<<"Row", rowNumber, "Invalid JSON in over_cost_reasons_json">>>>)
            ELSE IF acc.aborted
                 THEN RowFailed(acc, <<<<"Row", rowNumber, "Database error">>>>)
            ELSE IF ~DbTakesProduction(row)
                 THEN [RowFailed(acc, <<<<"Row", rowNumber, "Database error">>>>)
                          EXCEPT !.aborted = inTransaction]
            ELSE RowSucceeded(acc, Append(acc.table, ProductionRecord(row, overCost, rework)),
                              "inserted")
    IN productionTransactionLoop(rows, i + 1, next, inTransaction)

\* POST /csv/import/production of the transactional family
importProductionTransactional(file, table, inTransaction) ==
    LET parsed == parseProductionCSV(file)
        acc == productionTransactionLoop(parsed.rows, 1,
                                         StartImport(table, Len(parsed.rows)), inTransaction)
    IN IF parsed.rejected THEN ImportOutcome(StartImport(table, 0), table, TRUE)
       ELSE ImportOutcome(acc, IF inTransaction /\ acc.aborted THEN table ELSE acc.table,
                          FALSE)

\* The loop over the rows of the upsert production import
RECURSIVE productionUpsertLoop(_, _, _)
productionUpsertLoop(rows, i, acc) ==
    IF i > Len(rows) THEN acc
    ELSE
    LET row == rows[i]
        rowNum == (i - 1) + 2
        Thrown(message) == RowFailed(acc, <<<<"Row", rowNum, "Row", rowNum, message>>>>)
        entryId == UpdateId(row)
        overCost == OrElse(parseInt(row.boxes_over_cost), 0)
        rework == OrElse(parseInt(row.rework_boxes), 0)
        next ==
            IF Falsy(row.production_date) \/ Falsy(row.boxes_built)
            THEN Thrown("Missing required fields")
            ELSE IF ~Falsy(row.over_cost_reasons_json)
                    /\ JsonThrows(row.over_cost_reasons_json)
                 THEN Thrown("Invalid JSON in over_cost_reasons_json")
            ELSE IF entryId > 0 /\ entryId \notin 1..Len(acc.table)
                 THEN Thrown("Production entry ID not found")
            ELSE IF ~DbTakesProduction(row)
                 THEN RowFailed(acc, <<<<"Row", rowNum, "database error">>>>)
            ELSE IF entryId > 0
                 THEN RowSucceeded(acc, [acc.table EXCEPT ![entryId] =
                                            ProductionRecord(row, overCost, rework)],
                                   "updated")
            ELSE RowSucceeded(acc, Append(acc.table, ProductionRecord(row, overCost, rework)),
                              "inserted")
    IN productionUpsertLoop(rows, i + 1, next)

\* POST /csv/import/production of the upsert family
importProductionUpsert(file, table) ==
    LET acc == productionUpsertLoop(file.rows, 1, StartImport(table, Len(file.rows)))
    IN ImportOutcome(acc, acc.table, FALSE)

(***************************************************************************)
(* CSV export (transactional family)                                       *)
(***************************************************************************)
\* SELECT o.*, u.email as sales_rep_email ... LEFT JOIN users ... ORDER BY
\* o.order_date DESC, o.id DESC: the ids of the orders in the order of the result
exportOrdersQuery(table) ==
    SortSeq([k \in 1..Len(table) |-> k],
            LAMBDA a, b : \/ table[a].order_date > table[b].order_date
                          \/ table[a].order_date = table[b].order_date /\ a > b)

\* u.email of the joined owner; no owner leaves it null
JoinedEmail(salesRepId) ==
    IF \E u \in Users : u.id = salesRepId
    THEN Email((CHOOSE u \in Users : u.id = salesRepId).email)
    ELSE Missing

\* new Date(order.order_date).toISOString().split('T')[0]: the calendar day, in
\* UTC, of the local midnight the driver returned for the DATE column
toISODateString(day, utcOffset) == IF utcOffset > 0 THEN day - 1 ELSE day

\* formatOrdersForExport(orders), as the rows of the CSV file
formatOrdersForExport(table, ids, utcOffset) ==
    [j \in 1..Len(ids) |->
        LET order == table[ids[j]]
        IN [id |-> Num(ids[j]),
            order_date |-> DateCell(toISODateString(order.order_date, utcOffset)),
            sales_rep_email |-> JoinedEmail(order.sales_rep_id),
            boxes_qty |-> Num(order.boxes_qty),
            box_rrp_total |-> Num(order.box_rrp_total[1]),
            box_net_total |-> Num(order.box_net_total[1]),
            box_build_cost_total |-> Num(order.box_build_cost_total[1]),
            install_revenue |-> Num(0),
            extras_revenue |-> Num(0)]]

\* The columns of the exported file
ExportColumns ==
    {"id", "order_date", "order_ref", "sales_rep_email", "sales_rep_name", "boxes_qty",
     "box_rrp_total", "box_net_total", "box_build_cost_total", "install_revenue",
     "extras_revenue", "notes"}

\* GET /csv/export/orders: the file sent
exportOrders(table, utcOffset) ==
    [headers |-> ExportColumns,
     rows |-> formatOrdersForExport(table, exportOrdersQuery(table), utcOffset)]

(***************************************************************************)
(* The import requests                                                     *)
(***************************************************************************)
\* A file has at most MaxRows data rows
MaxRows == 2

\* No import is started that could take the tables beyond MaxStored records
MaxStored == MaxRows

\* Two dates of different financial years
ImportDate == NewDate(FirstYear + 1, 1, 1)

OtherYearDate == NewDate(FirstYear, 2, 15)

\* The columns of an orders file; of a file without the optional columns; of a
\* file without boxes_qty
OrderColumns ==
    {"id", "order_date", "order_ref", "sales_rep_email", "boxes_qty", "box_rrp_total",
     "box_net_total", "box_build_cost_total", "install_revenue", "extras_revenue", "notes"}

OrderHeaderChoices ==
    {OrderColumns,
     {"order_date", "boxes_qty", "box_rrp_total", "box_net_total", "box_build_cost_total"},
     OrderColumns \ {"boxes_qty"}}

\* An order row that every check accepts
PlainOrderRow ==
    [id |-> Missing, order_date |-> DateCell(ImportDate), boxes_qty |-> Num(2),
     box_rrp_total |-> Num(2800), box_net_total |-> Num(2600),
     box_build_cost_total |-> Num(1400), install_revenue |-> Missing,
     extras_revenue |-> Missing, sales_rep_email |-> Missing]

\* The rows of the imported order files
OrderRowChoices ==
    {PlainOrderRow,
     [PlainOrderRow EXCEPT !.boxes_qty = Missing],
     [PlainOrderRow EXCEPT !.sales_rep_email = Email("alice")],
     [PlainOrderRow EXCEPT !.sales_rep_email = Email("charlie")],
     [PlainOrderRow EXCEPT !.sales_rep_email = Email("nobody")],
     [PlainOrderRow EXCEPT !.order_date = LooseDate(ImportDate)],
     [PlainOrderRow EXCEPT !.id = Num(1), !.boxes_qty = Num(5),
                           !.order_date = DateCell(OtherYearDate)],
     [PlainOrderRow EXCEPT !.id = Num(1), !.boxes_qty = Num(5)],
     [PlainOrderRow EXCEPT !.id = Num(9)],
     [PlainOrderRow EXCEPT !.id = Num(0)],
     [PlainOrderRow EXCEPT !.id = Num(-1)],
     [PlainOrderRow EXCEPT !.id = Text("new")]}

\* The cells of a column the header does not have are undefined
FitsHeader(file) ==
    \A i \in 1..Len(file.rows) :
       \A column \in DOMAIN file.rows[i] \ file.headers : file.rows[i][column] = Missing

OrderFiles ==
    {file \in [headers : OrderHeaderChoices, rows : SeqsUpTo(OrderRowChoices, MaxRows)] :
        FitsHeader(file)}

ProductionColumns ==
    {"id", "production_date", "boxes_built", "boxes_over_cost", "over_cost_reasons_json",
     "rework_boxes", "notes"}

ProductionHeaderChoices ==
    {ProductionColumns, {"production_date", "boxes_built"},
     ProductionColumns \ {"boxes_built"}}

PlainProductionRow ==
    [id |-> Missing, production_date |-> DateCell(ImportDate), boxes_built |-> Num(20),
     boxes_over_cost |-> Missing, over_cost_reasons_json |-> Missing,
     rework_boxes |-> Missing]

ProductionRowChoices ==
    {PlainProductionRow,
     [PlainProductionRow EXCEPT !.boxes_built = Missing],
     [PlainProductionRow EXCEPT !.boxes_over_cost = Num(2),
                                !.over_cost_reasons_json = Json("array")],
     [PlainProductionRow EXCEPT !.boxes_over_cost = Num(2),
                                !.over_cost_reasons_json = Json("object")],
     [PlainProductionRow EXCEPT !.over_cost_reasons_json = Json("number")],
     [PlainProductionRow EXCEPT !.over_cost_reasons_json = Text("[{reason")],
     [PlainProductionRow EXCEPT !.production_date = LooseDate(ImportDate)],
     [PlainProductionRow EXCEPT !.id = Num(1), !.boxes_built = Num(7),
                                !.production_date = DateCell(OtherYearDate)],
     [PlainProductionRow EXCEPT !.id = Num(9)],
     [PlainProductionRow EXCEPT !.id = Num(0)]}

ProductionFiles ==
    {file \in [headers : ProductionHeaderChoices,
               rows : SeqsUpTo(ProductionRowChoices, MaxRows)] : FitsHeader(file)}

\* Room is left in the tables for the records that rows may add
RoomFor(rows) == Len(ordersTable) + Len(productionTable) + Len(rows) <= MaxStored

\* The rows of an upsert import that do not name a record to update
IsNewRow(row) == UpdateId(row) = 0

ImportOrdersTransactional ==
    /\ imp.op = "none"
    /\ \E file \in OrderFiles, inTransaction \in BOOLEAN :
          /\ RoomFor(file.rows)
          /\ LET out == importOrdersTransactional(file, ordersTable, inTransaction)
             IN /\ ordersTable' = out.table
                /\ imp' = [op |-> "importOrders", family |-> "transactional", file |-> file,
                           inTransaction |-> inTransaction, before |-> ordersTable,
                           result |-> out]
    /\ UNCHANGED <<settings, call, productionTable>>
    /\ UNCHANGED siteVars

ImportOrdersUpsert ==
    /\ imp.op = "none"
    /\ \E file \in OrderFiles :
          /\ RoomFor(SelectSeq(file.rows, IsNewRow))
          /\ LET out == importOrdersUpsert(file, ordersTable)
             IN /\ ordersTable' = out.table
                /\ imp' = [op |-> "importOrders", family |-> "upsert", file |-> file,
                           inTransaction |-> FALSE, before |-> ordersTable,
                           result |-> out]
    /\ UNCHANGED <<settings, call, productionTable>>
    /\ UNCHANGED siteVars

ImportProductionTransactional ==
    /\ imp.op = "none"
    /\ \E file \in ProductionFiles, inTransaction \in BOOLEAN :
          /\ RoomFor(file.rows)
          /\ LET out == importProductionTransactional(file, productionTable, inTransaction)
             IN /\ productionTable' = out.table
                /\ imp' = [op |-> "importProduction", family |-> "transactional",
                           file |-> file, inTransaction |-> inTransaction,
                           before |-> productionTable, result |-> out]
    /\ UNCHANGED <<settings, call, ordersTable>>
    /\ UNCHANGED siteVars

ImportProductionUpsert ==
    /\ imp.op = "none"
    /\ \E file \in ProductionFiles :
          /\ RoomFor(SelectSeq(file.rows, IsNewRow))
          /\ LET out == importProductionUpsert(file, productionTable)
             IN /\ productionTable' = out.table
                /\ imp' = [op |-> "importProduction", family |-> "upsert", file |-> file,
                           inTransaction |-> FALSE, before |-> productionTable,
                           result |-> out]
    /\ UNCHANGED <<settings, call, ordersTable>>
    /\ UNCHANGED siteVars

\* The offsets from UTC, in hours, of the time zones the server may run in
UtcOffsets == {-5, 0, 1}

\* GET /csv/export/orders: the user now holds the file
ExportOrders ==
    /\ imp.op = "none"
    /\ \E utcOffset \in UtcOffsets :
          imp' = [op |-> "exportOrders", utcOffset |-> utcOffset,
                  orders |-> [j \in 1..Len(ordersTable) |->
                                 ordersTable[exportOrdersQuery(ordersTable)[j]]],
                  file |-> exportOrders(ordersTable, utcOffset)]
    /\ UNCHANGED <<settings, call, ordersTable, productionTable>>
    /\ UNCHANGED siteVars

\* Room is left for a second copy of the exported orders
RoomForCopy(rows) ==
    Len(ordersTable) + Len(productionTable) + Len(rows) <= 2 * MaxStored

\* The exported file is uploaded to POST /csv/import/orders of the transactional
\* family
ReimportOrdersTransactional ==
    /\ imp.op = "exportOrders"
    /\ RoomForCopy(imp.file.rows)
    /\ \E inTransaction \in BOOLEAN :
          LET out == importOrdersTransactional(imp.file, ordersTable, inTransaction)
          IN /\ ordersTable' = out.table
             /\ imp' = [op |-> "importOrders", family |-> "transactional",
                        file |-> imp.file, inTransaction |-> inTransaction,
                        before |-> ordersTable, result |-> out,
                        exported |-> imp.orders, utcOffset |-> imp.utcOffset]
    /\ UNCHANGED <<settings, call, productionTable>>
    /\ UNCHANGED siteVars

\* The import page is rendered
ImportReturn ==
    /\ imp.op # "none"
    /\ imp' = [op |-> "none"]
    /\ UNCHANGED <<settings, call, ordersTable, productionTable>>
    /\ UNCHANGED siteVars

NextImport ==
    \/ ImportOrdersTransactional
    \/ ImportOrdersUpsert
    \/ ImportProductionTransactional
    \/ ImportProductionUpsert
    \/ ExportOrders
    \/ ReimportOrdersTransactional
    \/ ImportReturn

SpecImport == Init /\ [][NextImport]_vars

\* requireRole(allowedRoles): the request goes on to the handler
requireRole(allowedRoles, userRole) == userRole \in allowedRoles

\* req.session of a logged-in user
Sessions == {[userId |-> u.id, userRole |-> u.role] : u \in Users}

\* The sales router lets the session in
SalesRouter(session) == requireRole({"sales", "director"}, session.userRole)

(***************************************************************************)
(* The sales dashboard page                                                *)
(***************************************************************************)
\* SELECT o.* FROM orders o WHERE o.order_date >= $1 AND o.order_date <= $2
\* [AND o.sales_rep_id = $3]: all orders of the range for a director, the
\* session user's own for a sales rep
SelectDashboardOrders(stored, dateRange, isDirector, userId) ==
    LET Selected(order) == /\ order.order_date >= dateRange.start
                           /\ order.order_date <= dateRange.end
                           /\ isDirector \/ order.sales_rep_id = userId
    IN SelectSeq(stored, Selected)

\* The dates of the stored orders: 28 and 27 days before the end of each month
\* shown, the end of the month and the day after
DashboardDates ==
    UNION {{getFYDateRange(FYLabel(FirstYear, FirstYear + 1), m).end - back :
               back \in {28, 27, 0, -1}} : m \in {"Jul", "Feb"}}

\* The stored orders: of alice and of bob
StoredOrders ==
    {[order_date |-> d, sales_rep_id |-> owner, boxes_qty |-> <<"num", qty>>,
      box_rrp_total |-> <<"num", 1400 * qty>>, box_net_total |-> <<"num", 1300 * qty>>,
      box_build_cost_total |-> <<"num", 700 * qty>>, install_revenue |-> <<"num", 0>>,
      extras_revenue |-> <<"num", 0>>] :
        d \in DashboardDates, owner \in {1, 2}, qty \in {2}}

\* GET /sales/dashboard: the orders listed and their metrics
GetSalesDashboard ==
    /\ call.op = "none"
    /\ \E stored \in SeqsUpTo(StoredOrders, MaxOrders), fyMonth \in {"Jul", "Feb"},
          session \in {x \in Sessions : SalesRouter(x)} :
          LET fy == FYLabel(FirstYear, FirstYear + 1)
              isDirector == session.userRole = "director"
              dateRange == getFYDateRange(fy, fyMonth)
              orders == SelectDashboardOrders(stored, dateRange, isDirector,
                                              session.userId)
          IN call' = [op |-> "salesDashboard", session |-> session, stored |-> stored,
                      fy |-> fy, month |-> fyMonth, orders |-> orders,
                      metrics |-> aggregateSalesMetrics(orders, settings, fy, fyMonth)]
    /\ UNCHANGED settings
    /\ UNCHANGED importVars
    /\ UNCHANGED siteVars

NextDashboard ==
    \/ GetSalesDashboard
    \/ Return

SpecDashboard == Init /\ [][NextDashboard]_vars

(***************************************************************************)
(* The production dashboard page                                           *)
(***************************************************************************)
\* The production router lets the session in
ProductionRouter(session) == requireRole({"production", "director"}, session.userRole)

\* The rows of a query with ORDER BY <field> DESC: rows of one date come in
\* any order
OrderedDesc(rows, field) ==
    {[i \in 1..Len(rows) |-> rows[p[i]]] :
        p \in {q \in Permutations(1..Len(rows)) :
                  \A i, j \in 1..Len(rows) :
                      i < j => rows[q[i]][field] >= rows[q[j]][field]}}

\* SELECT * FROM production_boxes WHERE production_date >= $1 AND
\* production_date <= $2 ORDER BY production_date DESC
SelectMonthProduction(stored, dateRange) ==
    LET Selected(prod) == /\ prod.production_date >= dateRange.start
                          /\ prod.production_date <= dateRange.end
    IN OrderedDesc(SelectSeq(stored, Selected), "production_date")

\* SELECT * FROM orders WHERE order_date <= $1 ORDER BY order_date DESC
SelectOrdersUpTo(stored, dateRange) ==
    LET Selected(order) == order.order_date <= dateRange.end
    IN OrderedDesc(SelectSeq(stored, Selected), "order_date")

\* The month shown and its range
ProductionMonth == "Feb"

ProductionRange == getFYDateRange(FYLabel(FirstYear, FirstYear + 1), ProductionMonth)

Tag(reason, boxes) == [reason |-> reason, boxes |-> boxes]

\* The lists of tags of the stored batches: none, a value that is no list, an
\* empty list, and lists that name eight reasons between them, one tag without
\* a reason and one without a count
TagLists ==
    {Missing,
     <<"json", "object">>,
     ReasonsArray(<<>>),
     ReasonsArray(<<Tag(Text("material"), Num(3)), Tag(Text("labour"), Num(1)),
                    Tag(Text("material"), Num(2))>>),
     ReasonsArray(<<Tag(Text("design"), Num(4)), Tag(Text("damage"), Num(2)),
                    Tag(Text("delay"), Num(2)), Tag(Text("supplier"), Num(1)),
                    Tag(Missing, Num(5))>>),
     ReasonsArray(<<Tag(Text("rework"), Num(1)), Tag(Text("labour"), Missing),
                    Tag(Text("supplier"), Num(6)), Tag(Text("unknown"), Num(1))>>)}

\* The stored batches: of the day before the month or of its tenth day, of
\* three boxes built
StoredBatches ==
    {[production_date |-> d, boxes_built |-> Num(3), boxes_over_cost |-> Num(1),
      over_cost_reasons_json |-> tags, rework_boxes |-> Num(0)] :
        d \in {ProductionRange.start - 1, ProductionRange.start + 9}, tags \in TagLists}

SoldOrder(date, qty) ==
    [order_date |-> date, boxes_qty |-> Num(qty), box_rrp_total |-> Num(1400 * qty),
     box_net_total |-> Num(1300 * qty), box_build_cost_total |-> Num(700 * qty),
     install_revenue |-> Num(0), extras_revenue |-> Num(0)]

\* The stored orders: none; one of the month; or one of the financial year
\* before, one of the last day of the month and one of the day after it
StoredSales ==
    {<<>>,
     <<SoldOrder(ProductionRange.start, 1)>>,
     <<SoldOrder(NewDate(FirstYear, 5, 30), 1), SoldOrder(ProductionRange.end, 1),
       SoldOrder(ProductionRange.end + 1, 4)>>}

\* GET /production/dashboard: the month's batches, the orders up to the end of
\* the month, their metrics and statuses, and the note of the month
GetProductionDashboard ==
    /\ call.op = "none"
    /\ \E storedProduction \in SeqsUpTo(StoredBatches, MaxBatches),
          storedOrders \in StoredSales,
          session \in {x \in Sessions : ProductionRouter(x)} :
          LET fy == FYLabel(FirstYear, FirstYear + 1)
              month == ProductionMonth
              dateRange == getFYDateRange(fy, month)
          IN \E productionData \in SelectMonthProduction(storedProduction, dateRange),
                orders \in SelectOrdersUpTo(storedOrders, dateRange) :
                LET metrics == aggregateProductionMetrics(productionData, orders,
                                                          settings, fy, month)
                    monthlyBoxTarget == getMonthlyBoxTarget(settings, month)
                IN call' = [op |-> "productionDashboard", session |-> session,
                            storedProduction |-> storedProduction,
                            storedOrders |-> storedOrders,
                            fy |-> fy, month |-> month,
                            productionData |-> productionData, orders |-> orders,
                            metrics |-> metrics,
                            monthlyBoxTarget |-> monthlyBoxTarget,
                            boxesRAG |-> getRAGStatus(metrics.boxesBuilt, monthlyBoxTarget,
                                                      <<settings.rag_amber_floor_pct, 100>>),
                            costComplianceRAG |->
                                getCostComplianceRAG(metrics.costCompliancePct),
                            qualityRAG |-> getQualityRAG(metrics.qualityMetrics.reworkRate),
                            dashboardNote |->
                                NoteOf(notes, [fy_label |-> fy, fy_month |-> month,
                                               role |-> "production"])]
    /\ UNCHANGED settings
    /\ UNCHANGED importVars
    /\ UNCHANGED siteVars

NextProduction ==
    \/ GetProductionDashboard
    \/ Return

SpecProduction == Init /\ [][NextProduction]_vars

(***************************************************************************)
(* Dashboard notes                                                         *)
(***************************************************************************)
\* INSERT INTO dashboard_notes ... ON CONFLICT (fy_label, fy_month, role)
\* DO UPDATE SET note = $3
insertNoteOrUpdate(table, key, note) == (table \ NotesAt(table, key)) \cup {NoteRow(key, note)}

\* INSERT INTO dashboard_notes ... ON CONFLICT DO NOTHING
insertNoteOrNothing(table, key, note) ==
    IF NotesAt(table, key) = {} THEN table \cup {NoteRow(key, note)} ELSE table

\* A save that only inserts
productionNoteUpdateSkipped(table, key, note) == table

\* UPDATE dashboard_notes SET note = $3 WHERE fy_label = $1 AND fy_month = $2 AND role = ..
productionNoteUpdate(table, key, note) ==
    {IF KeyOf(row) = key THEN [row EXCEPT !.note = note] ELSE row : row \in table}

\* The save of a note is complete: it is the most recent of its key
SaveCompleted(route, userRole, key, note) ==
    [noteSaves EXCEPT !.recent[key] = note,
                      !.last = [route |-> route, userRole |-> userRole, role |-> key.role]]

\* POST /sales/dashboard/note; a body without note violates NOT NULL and nothing
\* is saved
SalesSaveNote ==
    \E userRole \in Roles, month \in NoteMonths, note \in NoteTexts \cup {Missing} :
       LET key == [fy_label |-> NoteLabel, fy_month |-> month, role |-> "sales"]
       IN /\ requireRole({"sales", "director"}, userRole)
          /\ note # Missing
          /\ notes' = insertNoteOrUpdate(notes, key, note)
          /\ noteSaves' = SaveCompleted("sales", userRole, key, note)
          /\ UNCHANGED <<settings, call, importVars, usersTable, site>>

\* POST /production/dashboard/note, first statement
ProductionSaveNoteInsert(slot) ==
    /\ noteSaves.inflight[slot].pc = "idle"
    /\ \E userRole \in Roles, month \in NoteMonths, note \in NoteTexts \cup {Missing} :
          LET key == [fy_label |-> NoteLabel, fy_month |-> month, role |-> "production"]
          IN /\ requireRole({"production", "director"}, userRole)
             /\ note # Missing
             /\ notes' = insertNoteOrNothing(notes, key, note)
             /\ noteSaves' = [noteSaves EXCEPT !.inflight[slot] =
                                 [pc |-> "update", userRole |-> userRole, key |-> key,
                                  note |-> note]]
    /\ UNCHANGED <<settings, call, importVars, usersTable, site>>

\* POST /production/dashboard/note, second statement and the redirect
ProductionSaveNoteUpdate(slot) ==
    LET save == noteSaves.inflight[slot]
    IN /\ save.pc = "update"
       /\ notes' = productionNoteUpdate(notes, save.key, save.note)
       /\ noteSaves' = [SaveCompleted("production", save.userRole, save.key, save.note)
                           EXCEPT !.inflight[slot] = [pc |-> "idle"]]
       /\ UNCHANGED <<settings, call, importVars, usersTable, site>>

NextNotes ==
    \/ SalesSaveNote
    \/ \E slot \in Savers : ProductionSaveNoteInsert(slot)
    \/ \E slot \in Savers : ProductionSaveNoteUpdate(slot)

SpecNotes == Init /\ [][NextNotes]_vars

(***************************************************************************)
(* Order pages of the sales router and deletion of users                   *)
(*                                                                         *)
(* A deleted order leaves its id unused: its place in the table holds      *)
(* DeletedOrder.  A session keeps the id and the role its user had at      *)
(* login, also after the account is deleted.                               *)
(***************************************************************************)
DeletedOrder == [deleted |-> TRUE]

\* SELECT * FROM orders WHERE id = $1 found a row
OrderExists(table, orderId) == orderId \in 1..Len(table) /\ table[orderId] # DeletedOrder

\* The ids a request may name: those in use and the next one
OrderIds == 1..(Len(ordersTable) + 1)

\* sales_rep_id REFERENCES users(id): the insert of an order of this owner is taken
OwnerExists(users, salesRepId) == \E u \in users : u.id = salesRepId

\* The order POST /sales/orders/new inserts for the session's user
NewOrderRecord(userId) == OrderRecord(PlainOrderRow, userId)

\* UPDATE orders SET ... WHERE id = $10: every column of the form, not the owner
UpdatedOrder(order, body) ==
    [OrderRecord(body, order.sales_rep_id) EXCEPT !.order_date = body.order_date[2]]

\* The form a user submits to change an order
EditBody == [PlainOrderRow EXCEPT !.boxes_qty = Num(7)]

\* The response, with what the request was and the orders it met
Responded(op, session, orderId, response) ==
    [op |-> op, session |-> session, orderId |-> orderId, response |-> response,
     before |-> ordersTable, deleting |-> site.deleting]

\* !isDirector && order.sales_rep_id !== userId is false
MayTouch(session, order) ==
    session.userRole = "director" \/ order.sales_rep_id = session.userId

\* POST /sales/orders/new
PostNewOrder ==
    /\ site.op = "none"
    /\ Len(ordersTable) < MaxStored
    /\ \E session \in Sessions :
          IF SalesRouter(session) /\ OwnerExists(usersTable, session.userId)
          THEN /\ ordersTable' = Append(ordersTable, NewOrderRecord(session.userId))
               /\ site' = Responded("new", session, Len(ordersTable) + 1, "redirect")
          ELSE /\ ordersTable' = ordersTable
               /\ site' = Responded("new", session, Len(ordersTable) + 1,
                                    IF SalesRouter(session) THEN "error" ELSE "denied")
    /\ UNCHANGED <<settings, call, productionTable, imp, notes, noteSaves, usersTable>>

\* GET /sales/orders/:id/edit
GetEditOrder ==
    /\ site.op = "none"
    /\ \E session \in Sessions, orderId \in OrderIds :
          site' = Responded("form", session, orderId,
                     IF ~SalesRouter(session) THEN "denied"
                     ELSE IF ~OrderExists(ordersTable, orderId) THEN "not found"
                     ELSE IF ~MayTouch(session, ordersTable[orderId]) THEN "denied"
                     ELSE "form")
    /\ UNCHANGED <<settings, call, importVars, notes, noteSaves, usersTable>>

\* POST /sales/orders/:id/edit
PostEditOrder ==
    /\ site.op = "none"
    /\ \E session \in Sessions, orderId \in OrderIds :
          LET response == IF ~SalesRouter(session) THEN "denied"
                          ELSE IF ~OrderExists(ordersTable, orderId) THEN "not found"
                          ELSE IF ~MayTouch(session, ordersTable[orderId]) THEN "denied"
                          ELSE "redirect"
          IN /\ ordersTable' =
                   IF response = "redirect"
                   THEN [ordersTable EXCEPT ![orderId] = UpdatedOrder(@, EditBody)]
                   ELSE ordersTable
             /\ site' = Responded("edit", session, orderId, response)
    /\ UNCHANGED <<settings, call, productionTable, imp, notes, noteSaves, usersTable>>

\* POST /sales/orders/:id/delete, behind requireRole('director')
PostDeleteOrder ==
    /\ site.op = "none"
    /\ \E session \in Sessions, orderId \in OrderIds :
          LET response == IF ~SalesRouter(session) THEN "denied"
                          ELSE IF ~requireRole({"director"}, session.userRole) THEN "denied"
                          ELSE IF ~OrderExists(ordersTable, orderId) THEN "not found"
                          ELSE "redirect"
          IN /\ ordersTable' =
                   IF response = "redirect"
                   THEN [ordersTable EXCEPT ![orderId] = DeletedOrder]
                   ELSE ordersTable
             /\ site' = Responded("delete", session, orderId, response)
    /\ UNCHANGED <<settings, call, productionTable, imp, notes, noteSaves, usersTable>>

\* POST /sales/orders/:id/duplicate: the order is read by its id alone; the copy is
\* the session user's, dated today
PostDuplicateOrder ==
    /\ site.op = "none"
    /\ Len(ordersTable) < MaxStored
    /\ \E session \in Sessions, orderId \in OrderIds :
          LET response == IF ~SalesRouter(session) THEN "denied"
                          ELSE IF ~OrderExists(ordersTable, orderId) THEN "not found"
                          ELSE IF ~OwnerExists(usersTable, session.userId) THEN "error"
                          ELSE "redirect"
          IN /\ ordersTable' =
                   IF response = "redirect"
                   THEN Append(ordersTable,
                               [ordersTable[orderId] EXCEPT !.sales_rep_id = session.userId,
                                                            !.order_date = ImportDate])
                   ELSE ordersTable
             /\ site' = Responded("duplicate", session, orderId, response)
    /\ UNCHANGED <<settings, call, productionTable, imp, notes, noteSaves, usersTable>>

\* SELECT COUNT(*) FROM orders WHERE sales_rep_id = $1
CountOrdersOf(table, userId) ==
    Cardinality({k \in 1..Len(table) : table[k] # DeletedOrder
                                       /\ table[k].sales_rep_id = userId})

\* POST /users/:id/delete up to its DELETE: the router's gate, the check of the
\* own account and the count of the user's orders
PostDeleteUserCheck ==
    /\ site.op = "none"
    /\ site.deleting = NoRep
    /\ \E session \in Sessions, userId \in {u.id : u \in Users} :
          LET response == IF ~requireRole({"director"}, session.userRole) THEN "denied"
                          ELSE IF userId = session.userId THEN "cannot_delete_self"
                          ELSE IF CountOrdersOf(ordersTable, userId) > 0
                               THEN "user_has_orders"
                          ELSE "deleting"
          IN site' = IF response = "deleting"
                     THEN [site EXCEPT !.deleting = userId]
                     ELSE [op |-> "deleteUser", session |-> session, userId |-> userId,
                           response |-> response, users |-> usersTable,
                           orders |-> ordersTable, deleting |-> site.deleting]
    /\ UNCHANGED <<settings, call, importVars, notes, noteSaves, usersTable>>

\* The orders after a deletion that leaves them as they are
OwnerKept(table, userId) == table

\* The orders after ON DELETE SET NULL for a deleted user
OwnerSetNull(table, userId) ==
    [k \in 1..Len(table) |->
        IF table[k] # DeletedOrder /\ table[k].sales_rep_id = userId
        THEN [table[k] EXCEPT !.sales_rep_id = NoRep]
        ELSE table[k]]

\* POST /users/:id/delete: DELETE FROM users WHERE id = $1 and the redirect
PostDeleteUserDelete ==
    /\ site.op = "none"
    /\ site.deleting # NoRep
    /\ usersTable' = {u \in usersTable : u.id # site.deleting}
    /\ ordersTable' = OwnerSetNull(ordersTable, site.deleting)
    /\ site' = [op |-> "deleteUser", userId |-> site.deleting, response |-> "success",
                owned |-> CountOrdersOf(ordersTable, site.deleting),
                deleting |-> NoRep]
    /\ UNCHANGED <<settings, call, productionTable, imp, notes, noteSaves>>

\* The response is rendered
SiteReturn ==
    /\ site.op # "none"
    /\ site' = [op |-> "none", deleting |-> site.deleting]
    /\ UNCHANGED <<settings, call, importVars, notes, noteSaves, usersTable>>

NextOrders ==
    \/ PostNewOrder
    \/ GetEditOrder
    \/ PostEditOrder
    \/ PostDeleteOrder
    \/ PostDuplicateOrder
    \/ PostDeleteUserCheck
    \/ PostDeleteUserDelete
    \/ SiteReturn

SpecOrders == Init /\ [][NextOrders]_vars


(***************************************************************************)
(* Properties of the calendar                                              *)
(***************************************************************************)
\* The true number of days of calendar month m (1..12) of year y (Gregorian rule)
TrueLastDay(y, m) ==
    IF m = 2
    THEN (IF (y % 4 = 0 /\ y % 100 # 0) \/ y % 400 = 0 THEN 29 ELSE 28)
    ELSE IF m \in {4, 6, 9, 11} THEN 30 ELSE 31

\* C1: for every date d, getFYMonth(d) is one of the twelve fiscal month names and
\* the range getFYDateRange(getFYForDate(d).label, getFYMonth(d)) contains d
\* (start <= d <= end, at day granularity).
C1_DateInItsFYMonthRange ==
    call.op = "fyOfDate" =>
        LET d == call.date
            range == getFYDateRange(call.fy.label, call.month)
        IN /\ call.month \in MonthNameSet
           /\ ~range.threw
           /\ range.start <= d
           /\ d <= range.end

\* C1 witness: the call was made for a date in the January-June half of a
\* financial year, on the last day of a leap February.
C1_Witness ==
    /\ call.op = "fyOfDate"
    /\ call.month = "Feb"
    /\ getDate(call.date) = 29

\* C2: the twelve ranges of a financial year, in fiscal-month order, are contiguous
\* and non-overlapping, each ends on the true last day of its calendar month, and
\* they span exactly the start..end that getFYForDate reports for any date in them.
C2_RangesPartitionFY ==
    call.op = "getFYDateRange" =>
        LET L == call.fyLabel
            i == IndexOfMonth(call.monthName) + 1
            r == call.result
            first == getFYDateRange(L, MONTH_NAMES[1])
            last == getFYDateRange(L, MONTH_NAMES[12])
        IN /\ ~r.threw
           /\ r.start <= r.end
           /\ getDate(r.start) = 1
           /\ getDate(r.end) = TrueLastDay(getFullYear(r.end), getMonth(r.end) + 1)
           /\ getMonth(r.start) = getMonth(r.end)
           /\ i < 12 => getFYDateRange(L, MONTH_NAMES[i + 1]).start = r.end + 1
           /\ i > 1 => getFYDateRange(L, MONTH_NAMES[i - 1]).end = r.start - 1
           /\ \A d \in r.start..r.end :
                 /\ getFYForDate(d).start = first.start
                 /\ getFYForDate(d).end = last.end

\* C2 witness: the range of February of the leap year was computed, ending on the 29th.
C2_Witness ==
    /\ call.op = "getFYDateRange"
    /\ call.monthName = "Feb"
    /\ getDate(call.result.end) = 29

\* The calendar-month number (1..12) a fiscal month name stands for
CalendarMonthOf(monthName) ==
    CASE monthName = "Jan" -> 1 [] monthName = "Feb" -> 2 [] monthName = "Mar" -> 3
      [] monthName = "Apr" -> 4 [] monthName = "May" -> 5 [] monthName = "Jun" -> 6
      [] monthName = "Jul" -> 7 [] monthName = "Aug" -> 8 [] monthName = "Sep" -> 9
      [] monthName = "Oct" -> 10 [] monthName = "Nov" -> 11 [] monthName = "Dec" -> 12

\* C3: the calendar honours the configured start month M = settings.fy_start_month:
\* the financial year of d starts in d's calendar year when month(d) >= M and in the
\* previous year otherwise, and the first fiscal month name is calendar month M.
C3_FYHonoursStartMonth ==
    call.op = "fyOfDate" =>
        LET d == call.date
            M == settings.fy_start_month
        IN /\ LabelStartYear(call.fy.label) =
                 (IF getMonth(d) + 1 >= M THEN getFullYear(d) ELSE getFullYear(d) - 1)
           /\ CalendarMonthOf(getAllFYMonths[1]) = M

(***************************************************************************)
(* Properties of the classifiers                                           *)
(***************************************************************************)
\* BELOW_TARGET < WATCH < ON_TARGET
Rank(status) == CASE status = "red" -> 0 [] status = "amber" -> 1 [] status = "green" -> 2

\* C4: getRAGStatus(value, target, f) is ON_TARGET (green) whenever target is 0, for
\* every value and f; otherwise, with ratio = value / target and f an amber fraction
\* (f <= 1), it is ON_TARGET iff ratio >= 1, WATCH iff f <= ratio < 1 and BELOW_TARGET
\* iff ratio < f: (650, 700, 0.90) is WATCH, (560, 700, 0.90) BELOW_TARGET and
\* (700, 700, 0.90) ON_TARGET. A month whose target getMonthlyBoxTarget reports as 0
\* is always ON_TARGET.
C4_StandardClassification ==
    /\ call.op = "getRAGStatus" =>
          LET v == call.value
              t == call.target
              f == IF call.amberFloorPct = Missing THEN <<90, 100>> ELSE call.amberFloorPct
              \* ratio >= 1 and ratio >= f, with both sides multiplied by the target
              atLeastOne == IF t > 0 THEN v >= t ELSE v <= t
              atLeastFloor == IF t > 0 THEN v * f[2] >= f[1] * t ELSE v * f[2] <= f[1] * t
          IN /\ t = 0 => call.result = "green"
             /\ (t # 0 /\ f[1] <= f[2]) =>
                   /\ call.result = "green" <=> atLeastOne
                   /\ call.result = "amber" <=> (atLeastFloor /\ ~atLeastOne)
                   /\ call.result = "red" <=> ~atLeastFloor
             /\ (v = 650 /\ t = 700 /\ f = <<90, 100>>) => call.result = "amber"
             /\ (v = 560 /\ t = 700 /\ f = <<90, 100>>) => call.result = "red"
             /\ (v = 700 /\ t = 700 /\ f = <<90, 100>>) => call.result = "green"
    /\ call.op = "boxesRAG" =>
          (call.monthlyBoxTarget = 0 => call.result = "green")

\* C4 witness: 650 against a target of 700 with a floor of 0.90 was classified WATCH.
C4_Witness ==
    /\ call.op = "getRAGStatus"
    /\ call.value = 650
    /\ call.target = 700
    /\ call.amberFloorPct = <<90, 100>>
    /\ call.result = "amber"

\* C5: for a fixed target > 0 and amber fraction 0 < f < 1, getRAGStatus is monotonic
\* non-decreasing in value: v1 <= v2 implies status(v1) <= status(v2) in the order
\* BELOW_TARGET < WATCH < ON_TARGET.
C5_MonotonicInValue ==
    (/\ call.op = "getRAGStatus"
     /\ call.target > 0
     /\ call.amberFloorPct # Missing
     /\ call.amberFloorPct[1] > 0
     /\ call.amberFloorPct[1] < call.amberFloorPct[2]) =>
        \A v2 \in RagValues :
            call.value <= v2 =>
                Rank(call.result) <= Rank(getRAGStatus(v2, call.target, call.amberFloorPct))

\* C5 witness: a value classified BELOW_TARGET for which larger values reach WATCH
\* and ON_TARGET under the same target and floor.
C5_Witness ==
    /\ call.op = "getRAGStatus"
    /\ call.target = 700
    /\ call.amberFloorPct = <<90, 100>>
    /\ call.result = "red"
    /\ \E v2, v3 \in RagValues :
          /\ call.value < v2
          /\ v2 < v3
          /\ getRAGStatus(v2, call.target, call.amberFloorPct) = "amber"
          /\ getRAGStatus(v3, call.target, call.amberFloorPct) = "green"

\* The in-window rows of a production aggregation, by the range of its month
InWindowBatches ==
    LET range == getFYDateRange(call.fyLabel, call.fyMonth)
    IN {i \in 1..Len(call.productionData) :
           /\ range.start <= call.productionData[i].production_date
           /\ call.productionData[i].production_date <= range.end}

\* The number a stored count stands for (0 when it is absent)
CountOf(x) == IF x = Missing THEN 0 ELSE x[2]

RECURSIVE TotalOf(_, _)
TotalOf(I, field) ==
    IF I = {} THEN 0
    ELSE LET i == CHOOSE x \in I : TRUE
         IN CountOf(call.productionData[i][field]) + TotalOf(I \ {i}, field)

\* C6: for in-window batches with total boxesBuilt > 0, costCompliancePct is
\* (boxesBuilt - boxesOverCost) * 100 / boxesBuilt, and getCostComplianceRAG is
\* ON_TARGET iff pct >= 95, WATCH iff 90 <= pct < 95 and BELOW_TARGET iff pct < 90;
\* boxesBuilt = 20 with boxesOverCost = 2 gives 90 and WATCH.
C6_CostCompliance ==
    call.op = "aggregateProductionMetrics" =>
        LET built == TotalOf(InWindowBatches, "boxes_built")
            over == TotalOf(InWindowBatches, "boxes_over_cost")
            pct == call.result.costCompliancePct
        IN built > 0 =>
              /\ call.result.boxesBuilt = built
              /\ pct[1] * built = (built - over) * 100 * pct[2]
              /\ call.costComplianceRAG = "green" <=> (built - over) * 100 >= 95 * built
              /\ call.costComplianceRAG = "amber" <=>
                    /\ (built - over) * 100 >= 90 * built
                    /\ (built - over) * 100 < 95 * built
              /\ call.costComplianceRAG = "red" <=> (built - over) * 100 < 90 * built
              /\ (built = 20 /\ over = 2) =>
                    /\ pct[1] = 90 * pct[2]
                    /\ call.costComplianceRAG = "amber"

\* C6 witness: of two batches that built boxes one lies in the window; the in-window
\* totals are 20 built and 2 over cost, and the status is WATCH.
C6_Witness ==
    /\ call.op = "aggregateProductionMetrics"
    /\ Len(call.productionData) = 2
    /\ Cardinality(InWindowBatches) = 1
    /\ call.result.boxesBuilt = 20
    /\ call.result.costLeakage.boxesOverCost = 2
    /\ call.productionData[1].boxes_built # Num(0)
    /\ call.productionData[2].boxes_built # Num(0)
    /\ call.costComplianceRAG = "amber"

\* C7: getDiscountRAG(x) is ON_TARGET iff x <= 1, WATCH iff 1 < x <= 3 and
\* BELOW_TARGET iff x > 3 (a negative impact is ON_TARGET); getQualityRAG(p) is
\* ON_TARGET iff p <= 3, WATCH iff 3 < p <= 5 and BELOW_TARGET iff p > 5.
C7_LowerIsBetterBands ==
    /\ call.op = "getDiscountRAG" =>
          LET n == call.boxesLost[1]
              d == call.boxesLost[2]
          IN /\ call.result = "green" <=> n <= d
             /\ call.result = "amber" <=> (n > d /\ n <= 3 * d)
             /\ call.result = "red" <=> n > 3 * d
             /\ n < 0 => call.result = "green"
    /\ call.op = "getQualityRAG" =>
          LET n == call.percentage[1]
              d == call.percentage[2]
          IN /\ call.result = "green" <=> n <= 3 * d
             /\ call.result = "amber" <=> (n > 3 * d /\ n <= 5 * d)
             /\ call.result = "red" <=> n > 5 * d

\* C7 witness: exactly 3 equivalent boxes lost were classified WATCH.
C7_Witness ==
    /\ call.op = "getDiscountRAG"
    /\ call.boxesLost[1] = 3 * call.boxesLost[2]
    /\ call.result = "amber"

\* The words that must never appear in a status text
BannedWords == {"Failed", "Missed", "Underperformed"}

\* C8: formatStatusText returns exactly one of the three approved labels (green ->
\* "On target", amber -> "Watch", red -> "Below target"), and no text it returns
\* contains the words "Failed", "Missed" or "Underperformed".
C8_ApprovedStatusText ==
    LET Approved(status, text) ==
            /\ status = "green" => text = <<"On", "target">>
            /\ status = "amber" => text = <<"Watch">>
            /\ status = "red" => text = <<"Below", "target">>
            /\ \A i \in 1..Len(text) : text[i] \notin BannedWords
    IN call.op = "formatStatusText" => Approved(call.ragStatus, call.result)

\* C8 witness: the text of a BELOW_TARGET status was produced.
C8_Witness ==
    /\ call.op = "formatStatusText"
    /\ call.ragStatus = "red"
    /\ call.result = <<"Below", "target">>

(***************************************************************************)
(* Properties of the per-order calculations                                *)
(***************************************************************************)
\* The order of the call has all three amounts, as the orders table requires
AmountsPresent ==
    /\ call.order.box_rrp_total # Missing
    /\ call.order.box_net_total # Missing
    /\ call.order.box_build_cost_total # Missing

\* C9: for an order with boxesQty >= 1 and a floor > 0, expectedBaseline = rrpTotal -
\* buildCostTotal, actualBaseline = netTotal - buildCostTotal, contributionPerBox =
\* actualBaseline / boxesQty, discountImpact = rrpTotal - netTotal (negative and
\* unclamped when net exceeds RRP) and discountBoxesLost = discountImpact / floor;
\* {qty 2, rrp 2800, net 2600, cost 1400, floor 700} gives 1400, 1200, 600, 200, 200/700.
C9_OrderMetrics ==
    (/\ call.op = "calculateOrderMetrics"
     /\ AmountsPresent
     /\ call.order.boxes_qty # Missing
     /\ call.order.boxes_qty[2] >= 1
     /\ call.baselineFloorPerBox > 0) =>
        LET qty == call.order.boxes_qty[2]
            rrp == call.order.box_rrp_total[2]
            net == call.order.box_net_total[2]
            cost == call.order.box_build_cost_total[2]
            floor == call.baselineFloorPerBox
            r == call.result
        IN /\ r.expectedBaseline = rrp - cost
           /\ r.actualBaseline = net - cost
           /\ r.contributionPerBox[1] * qty = (net - cost) * r.contributionPerBox[2]
           /\ r.discountImpact = rrp - net
           /\ r.discountBoxesLost[1] * floor = (rrp - net) * r.discountBoxesLost[2]
           /\ (qty = 2 /\ rrp = 2800 /\ net = 2600 /\ cost = 1400 /\ floor = 700) =>
                 /\ r.expectedBaseline = 1400
                 /\ r.actualBaseline = 1200
                 /\ r.contributionPerBox[1] = 600 * r.contributionPerBox[2]
                 /\ r.discountImpact = 200
                 /\ r.discountBoxesLost[1] * 700 = 200 * r.discountBoxesLost[2]

\* C9 witness: an order whose net total exceeds its RRP total was calculated, and
\* its discount impact is negative.
C9_Witness ==
    /\ call.op = "calculateOrderMetrics"
    /\ AmountsPresent
    /\ call.order.boxes_qty = Num(2)
    /\ call.baselineFloorPerBox = 700
    /\ call.result.discountImpact < 0
    /\ call.result.discountBoxesLost[1] < 0

\* C10 as stated: when the stored boxesQty is missing, zero or negative, the divisor
\* defaults to 1, so contributionPerBox equals actualBaseline.
C10_AsStated ==
    (/\ call.op = "calculateOrderMetrics"
     /\ (call.order.boxes_qty = Missing \/ call.order.boxes_qty[2] <= 0)) =>
        call.result.contributionPerBox[1] =
            call.result.actualBaseline * call.result.contributionPerBox[2]

\* C10 amended: when the stored boxesQty is missing or zero, the divisor defaults to 1
\* and contributionPerBox equals actualBaseline; when it is negative, no division is
\* made and contributionPerBox is 0.
C10_DivisorFallback ==
    call.op = "calculateOrderMetrics" =>
        LET qty == call.order.boxes_qty
            cpb == call.result.contributionPerBox
        IN /\ (qty = Missing \/ qty[2] = 0) =>
                 cpb[1] = call.result.actualBaseline * cpb[2]
           /\ (qty # Missing /\ qty[2] < 0) => cpb[1] = 0
           /\ cpb[2] > 0

\* C10 witness: an order without a quantity and with a non-zero actual baseline.
C10_Witness ==
    /\ call.op = "calculateOrderMetrics"
    /\ call.order.boxes_qty = Missing
    /\ call.result.actualBaseline # 0
    /\ call.result.contributionPerBox = Whole(call.result.actualBaseline)

(***************************************************************************)
(* Properties of the sales aggregation                                     *)
(***************************************************************************)
\* The orders of the call whose date lies in the asked fiscal month
MonthOrderIndexes ==
    LET m == CalendarMonthOf(call.fyMonth)
        y == call.fyLabel[1] + (IF m >= 7 THEN 0 ELSE 1)
        rangeStart == MakeDay(y, m - 1, 1)
        rangeEnd == MakeDay(y, m - 1, TrueLastDay(y, m))
    IN {i \in 1..Len(call.orders) :
           rangeStart <= call.orders[i].order_date /\ call.orders[i].order_date <= rangeEnd}

\* The number a stored amount stands for
AmountOf(x) == IF x = Missing THEN 0 ELSE x[2]

RECURSIVE OrdersTotal(_, _)
OrdersTotal(I, field) ==
    IF I = {} THEN 0
    ELSE LET i == CHOOSE x \in I : TRUE
         IN AmountOf(call.orders[i][field]) + OrdersTotal(I \ {i}, field)

\* The discount impact of the month's orders: their RRP less their net value
MonthDiscountImpact ==
    OrdersTotal(MonthOrderIndexes, "box_rrp_total") - OrdersTotal(MonthOrderIndexes, "box_net_total")

\* C11: aggregateSalesMetrics uses the configured floor as given:
\* discountBoxesLostTotal is discountImpactTotal / floor when the floor is positive
\* and 0 when the configured floor is 0, and baselineTarget is the month's box
\* target times the floor (0 when the floor is 0).
C11_FloorAsConfigured ==
    call.op = "aggregateSalesMetrics" =>
        LET floor == settings.baseline_floor_per_box
            target == settings.monthly_box_targets_json[call.fyMonth]
        IN /\ call.result.baselineTarget = target * floor
           /\ floor > 0 => EQ(call.result.discountBoxesLostTotal,
                              Quot(MonthDiscountImpact, floor))
           /\ floor = 0 => EQ(call.result.discountBoxesLostTotal, Whole(0))

\* C12: boxesSold, baselineActual, discountImpactTotal and ordersCount are computed
\* over exactly the orders whose date d has rangeStart <= d <= rangeEnd for the asked
\* fiscal month: orders dated on the first or the last day of the month are counted
\* and orders outside the range contribute nothing.
C12_MonthOrdersExactly ==
    call.op = "aggregateSalesMetrics" =>
        LET I == MonthOrderIndexes
        IN /\ call.result.boxesSold = OrdersTotal(I, "boxes_qty")
           /\ call.result.baselineActual =
                 OrdersTotal(I, "box_net_total") - OrdersTotal(I, "box_build_cost_total")
           /\ call.result.discountImpactTotal = MonthDiscountImpact
           /\ call.result.shapeMetrics.ordersCount = Cardinality(I)

\* C12 witness: February is aggregated over an order dated on its last day and an
\* order dated the day after; only the first is counted.
C12_Witness ==
    /\ call.op = "aggregateSalesMetrics"
    /\ call.fyMonth = "Feb"
    /\ Len(call.orders) = 2
    /\ call.orders[1].order_date = MakeDay(call.fyLabel[1] + 1, 1, TrueLastDay(call.fyLabel[1] + 1, 2))
    /\ call.orders[2].order_date = call.orders[1].order_date + 1
    /\ call.result.shapeMetrics.ordersCount = 1
    /\ call.result.boxesSold = 2
    /\ call.result.discountImpactTotal = 200

\* C13: every aggregation and classification call returns a value for well-typed
\* input, empty record sets included: averageDiscountPct is 0 when the summed RRP
\* is 0, the three mix percentages are 0 when the total sales value is 0,
\* avgBoxesPerOrder is 0 without orders, avgBaselinePerBox is 0 when boxesSold is 0,
\* costCompliancePct is 100 and reworkRate and installShapePct are 0 when boxesBuilt
\* is 0, so a month without production is ON_TARGET for cost compliance and quality.
C13_TotalWithFallbacks ==
    /\ call.op = "aggregateSalesMetrics" =>
          LET I == MonthOrderIndexes
              r == call.result
              salesValue == OrdersTotal(I, "box_net_total") + OrdersTotal(I, "install_revenue")
                            + OrdersTotal(I, "extras_revenue")
          IN /\ ~r.threw
             /\ OrdersTotal(I, "box_rrp_total") = 0 => r.averageDiscountPct = Whole(0)
             /\ salesValue = 0 =>
                   /\ r.observedMix.boxMixPct = Whole(0)
                   /\ r.observedMix.installMixPct = Whole(0)
                   /\ r.observedMix.extrasMixPct = Whole(0)
             /\ I = {} => r.shapeMetrics.avgBoxesPerOrder = Whole(0)
             /\ OrdersTotal(I, "boxes_qty") = 0 => r.shapeMetrics.avgBaselinePerBox = Whole(0)
             /\ {call.boxesRAG, call.baselineRAG, call.discountRAG} \subseteq StatusChoices
    /\ call.op = "aggregateProductionMetrics" =>
          LET r == call.result
          IN /\ {call.boxesRAG, call.costComplianceRAG, call.qualityRAG} \subseteq StatusChoices
             /\ TotalOf(InWindowBatches, "boxes_built") = 0 =>
                   /\ r.costCompliancePct = Whole(100)
                   /\ r.qualityMetrics.reworkRate = Whole(0)
                   /\ r.installShape.installShapePct = Whole(0)
                   /\ call.costComplianceRAG = "green"
                   /\ call.qualityRAG = "green"

\* C13 witness: a month whose only batch built nothing although it reports boxes
\* over cost and rework, with an installed order in the month.
C13_Witness ==
    /\ call.op = "aggregateProductionMetrics"
    /\ InWindowBatches # {}
    /\ TotalOf(InWindowBatches, "boxes_built") = 0
    /\ call.result.costLeakage.boxesOverCost > 0
    /\ call.result.qualityMetrics.reworkBoxes > 0
    /\ call.result.installShape.installedBoxes > 0
    /\ call.costComplianceRAG = "green"

\* C13 witness of the sales side: the month's orders have no RRP and no sales value
C13_SalesWitness ==
    /\ call.op = "aggregateSalesMetrics"
    /\ MonthOrderIndexes # {}
    /\ OrdersTotal(MonthOrderIndexes, "box_rrp_total") = 0
    /\ call.result.observedMix.totalSalesValue = 0

(***************************************************************************)
(* Properties of the CSV validation and import                             *)
(***************************************************************************)
\* The violations of an order row: one message per empty required field and one
\* per field that is not of its type
OrderRowViolations(row) ==
    LET IsNumber(cell) == cell # Missing /\ cell[1] = "num"
    IN {r \in {"order_date", "boxes_qty", "box_rrp_total", "box_net_total",
               "box_build_cost_total"} : row[r] = Missing}
       \cup {f \in {"qty"} : ~(IsNumber(row.boxes_qty) /\ row.boxes_qty[2] >= 1)}
       \cup {f \in {"rrp"} : ~IsNumber(row.box_rrp_total)}
       \cup {f \in {"net"} : ~IsNumber(row.box_net_total)}
       \cup {f \in {"cost"} : ~IsNumber(row.box_build_cost_total)}
       \cup {f \in {"install"} :
                row.install_revenue # Missing /\ ~IsNumber(row.install_revenue)}
       \cup {f \in {"extras"} :
                row.extras_revenue # Missing /\ ~IsNumber(row.extras_revenue)}
       \cup {f \in {"date"} : row.order_date # Missing /\ row.order_date[1] \notin {"date", "loosedate"}}
       \cup {f \in {"email"} :
                row.sales_rep_email # Missing /\ row.sales_rep_email[1] # "email"}

\* The violation a message reports
ViolationOf(message) ==
    CASE message = "order_date is required" -> "order_date"
      [] message = "boxes_qty is required" -> "boxes_qty"
      [] message = "box_rrp_total is required" -> "box_rrp_total"
      [] message = "box_net_total is required" -> "box_net_total"
      [] message = "box_build_cost_total is required" -> "box_build_cost_total"
      [] message = "boxes_qty must be a positive integer" -> "qty"
      [] message = "box_rrp_total must be a number" -> "rrp"
      [] message = "box_net_total must be a number" -> "net"
      [] message = "box_build_cost_total must be a number" -> "cost"
      [] message = "install_revenue must be a number" -> "install"
      [] message = "extras_revenue must be a number" -> "extras"
      [] message = "order_date must be a valid date (YYYY-MM-DD)" -> "date"
      [] message = "sales_rep_email must be a valid email address" -> "email"

ImportDone == imp.op \in {"importOrders", "importProduction"}

ImportServed == ImportDone /\ ~imp.result.hardError

\* The number of rows of the served import with the given outcome
OutcomeCount(how) ==
    Cardinality({i \in 1..Len(imp.result.outcome) : imp.result.outcome[i] = how})

\* C15: in every production import path, a row whose over_cost_reasons_json is
\* present but is invalid JSON, or valid JSON that is not an array, is counted as a
\* failed row and no production record is inserted or updated from it.
C15_NonArrayReasonsFail ==
    (imp.op = "importProduction" /\ ImportServed) =>
        \A i \in 1..Len(imp.file.rows) :
           LET cell == imp.file.rows[i].over_cost_reasons_json
           IN (cell # Missing /\ cell # Json("array")) => imp.result.outcome[i] = "failed"

\* The account with the given id is a sales rep
IsSalesRep(id) == \E u \in Users : u.id = id /\ u.role = "sales"

\* C16: in every order import path, a row carrying a sales_rep_email is stored with
\* that user as owner only if the email resolves to an account whose role is "sales";
\* an email of no account, or of a production or director account, makes the row a
\* row-level failure (no order stored for it) and the import goes on with the next row.
C16_OwnerIsSalesRep ==
    (imp.op = "importOrders" /\ ImportServed) =>
        /\ \A i \in 1..Len(imp.file.rows) :
              LET cell == imp.file.rows[i].sales_rep_email
              IN (cell # Missing /\ ~\E u \in Users : u.email = cell[2] /\ u.role = "sales")
                    => imp.result.outcome[i] = "failed"
        /\ \A k \in 1..Len(ordersTable) :
              ordersTable[k].sales_rep_id # NoRep => IsSalesRep(ordersTable[k].sales_rep_id)
        /\ Len(imp.result.outcome) = Len(imp.file.rows)

\* The header of the imported file has every column the handler reads as required
HeaderComplete ==
    IF imp.op = "importOrders"
    THEN {"order_date", "boxes_qty", "box_rrp_total", "box_net_total",
          "box_build_cost_total"} \subseteq imp.file.headers
    ELSE {"production_date", "boxes_built"} \subseteq imp.file.headers

\* C17: an import processes every data row exactly once and never stops at a failed
\* row: a row missing boxes_qty is counted as failed with an error naming its row
\* number, every later row is still processed, and when the import completes
\* total = number of data rows = succeeded + failed, with at least one recorded error
\* message per failed row.
C17_EveryRowProcessed ==
    (imp.op = "importOrders" /\ HeaderComplete
        /\ (imp.family = "transactional" => OrderRequiredColumns \subseteq imp.file.headers)) =>
        LET rows == imp.file.rows
            r == imp.result
        IN /\ ~r.hardError
           /\ Len(r.outcome) = Len(rows)
           /\ r.total = Len(rows)
           /\ r.total = r.success + r.failed
           /\ r.failed = OutcomeCount("failed")
           /\ \A i \in 1..Len(rows) :
                 r.outcome[i] = "failed" => \E e \in 1..Len(r.errors) : r.errors[e][2] = i + 1
           /\ \A i \in 1..Len(rows) :
                 rows[i].boxes_qty = Missing => r.outcome[i] = "failed"

\* C18: an import is one hard failure, before any row is validated or stored, exactly
\* when the header lacks a required column of its record type (orders: order_date,
\* boxes_qty, box_rrp_total, box_net_total, box_build_cost_total; production:
\* production_date, boxes_built): such a file stores nothing and reports one structural
\* error and no per-row errors, and a file whose header has all of them (order_ref or
\* sales_rep_email absent) is accepted and its rows processed.
C18_HeaderCheckExact ==
    ImportDone =>
        /\ ~HeaderComplete =>
              /\ imp.result.hardError
              /\ imp.result.outcome = <<>>
              /\ imp.result.table = imp.before
        /\ HeaderComplete =>
              /\ ~imp.result.hardError
              /\ Len(imp.result.outcome) = Len(imp.file.rows)

\* The id cell of a row is a positive integer
PositiveId(row) == row.id # Missing /\ row.id[1] = "num" /\ row.id[2] > 0

\* The number of records when row i of the served import is reached
RecordsAt(i) ==
    Len(imp.before)
       + Cardinality({j \in 1..(i - 1) : imp.result.outcome[j] = "inserted"})

\* Row i of the served upsert import has its required cells, an owner that
\* resolves, reasons that parse, and values the database takes
UpsertAcceptable(i) ==
    LET row == imp.file.rows[i]
    IN IF imp.op = "importOrders"
       THEN /\ \A c \in {"order_date", "boxes_qty", "box_rrp_total", "box_net_total",
                         "box_build_cost_total"} : row[c] # Missing
            /\ row.sales_rep_email # Missing =>
                  \E u \in Users : u.email = row.sales_rep_email[2] /\ u.role = "sales"
            /\ row.order_date[1] = "date"
            /\ row.boxes_qty[1] = "num" /\ row.boxes_qty[2] >= 1
       ELSE /\ row.production_date # Missing /\ row.boxes_built # Missing
            /\ row.over_cost_reasons_json # Missing => row.over_cost_reasons_json[1] = "json"
            /\ row.production_date[1] = "date"
            /\ row.boxes_built[1] = "num"

\* The rows of the served import that updated record k
UpdatesOf(k) ==
    {i \in 1..Len(imp.file.rows) :
        imp.result.outcome[i] = "updated" /\ imp.file.rows[i].id = Num(k)}

\* The date and the count record k holds, and those row i carries
StoredDateAndCount(k) ==
    IF imp.op = "importOrders"
    THEN <<imp.result.table[k].order_date, imp.result.table[k].boxes_qty>>
    ELSE <<imp.result.table[k].production_date, imp.result.table[k].boxes_built>>

RowDateAndCount(i) ==
    IF imp.op = "importOrders"
    THEN <<imp.file.rows[i].order_date[2], imp.file.rows[i].boxes_qty[2]>>
    ELSE <<imp.file.rows[i].production_date[2], imp.file.rows[i].boxes_built[2]>>

\* C19: in an upsert import, a row whose id is a positive integer updates the record
\* with that id when it exists (the other records and the number of records
\* unchanged) and otherwise fails with a "not found" error; a row whose id is absent,
\* non-numeric, zero or negative inserts exactly one new record; whatever the
\* financial year or month of the row's date.
C19_Upsert ==
    (ImportDone /\ imp.family = "upsert") =>
        LET rows == imp.file.rows
            r == imp.result
        IN /\ Len(r.outcome) = Len(rows)
           /\ Len(r.table) = Len(imp.before) + OutcomeCount("inserted")
           /\ \A i \in 1..Len(rows) :
                 /\ r.outcome[i] = "updated" =>
                       PositiveId(rows[i]) /\ rows[i].id[2] <= RecordsAt(i)
                 /\ r.outcome[i] = "inserted" => ~PositiveId(rows[i])
                 /\ UpsertAcceptable(i) =>
                       r.outcome[i] =
                          IF ~PositiveId(rows[i]) THEN "inserted"
                          ELSE IF rows[i].id[2] <= RecordsAt(i) THEN "updated"
                          ELSE "failed"
                 /\ (UpsertAcceptable(i) /\ r.outcome[i] = "failed") =>
                       \E e \in 1..Len(r.errors) :
                          /\ r.errors[e][2] = i + 1
                          /\ r.errors[e][5] \in {"Order ID not found",
                                                 "Production entry ID not found"}
           /\ \A k \in 1..Len(imp.before) :
                 IF UpdatesOf(k) = {} THEN r.table[k] = imp.before[k]
                 ELSE \E i \in UpdatesOf(k) :
                         /\ \A j \in UpdatesOf(k) : j <= i
                         /\ StoredDateAndCount(k) = RowDateAndCount(i)

\* An upsert import met two orders and a row with id 1 dated in another financial
\* year: the first order now holds the row's values, the second is as it was
C19_Witness ==
    /\ imp.op = "importOrders" /\ imp.family = "upsert"
    /\ Len(imp.before) = 2
    /\ Len(imp.file.rows) = 1
    /\ imp.file.rows[1].id = Num(1)
    /\ imp.file.rows[1].order_date = DateCell(OtherYearDate)
    /\ imp.result.outcome = <<"updated">>
    /\ Len(ordersTable) = 2
    /\ ordersTable[1].boxes_qty = 5
    /\ ordersTable[1].order_date = OtherYearDate
    /\ ordersTable[1] # imp.before[1]
    /\ ordersTable[2] = imp.before[2]

\* C20: a failure in one import row never undoes rows of the same file that were
\* processed successfully: when the import finishes, the store holds the insert or
\* update of every row counted as succeeded, whatever happened to the other rows.
C20_SucceededRowsStay ==
    ImportServed =>
        /\ imp.result.success = OutcomeCount("inserted") + OutcomeCount("updated")
        /\ Len(imp.result.table) = Len(imp.before) + OutcomeCount("inserted")
        /\ \A k \in 1..Len(imp.before) :
              UpdatesOf(k) # {} =>
                 \E i \in UpdatesOf(k) : StoredDateAndCount(k) = RowDateAndCount(i)

\* The served import was the upload of an exported file
IsReimport == ImportDone /\ "exported" \in DOMAIN imp

\* C21: round trip: exporting the stored orders to CSV and importing that CSV as
\* fresh inserts succeeds for every row and yields one new order per exported order
\* with the same boxes_qty, box_rrp_total, box_net_total, box_build_cost_total and the
\* same order date.
C21_RoundTrip ==
    (IsReimport /\ imp.family = "transactional") =>
        LET n == Len(imp.exported)
            r == imp.result
        IN /\ ~r.hardError
           /\ r.outcome = [j \in 1..n |-> "inserted"]
           /\ Len(r.table) = Len(imp.before) + n
           /\ \A j \in 1..n :
                 LET new == r.table[Len(imp.before) + j]
                     old == imp.exported[j]
                 IN /\ new.boxes_qty = old.boxes_qty
                    /\ new.box_rrp_total = old.box_rrp_total
                    /\ new.box_net_total = old.box_net_total
                    /\ new.box_build_cost_total = old.box_build_cost_total
                    /\ new.order_date = old.order_date

\* C22: in every reachable state of the settings row - the seeded or default row and
\* the result of any sequence of director updates - the twelve monthly box targets
\* sum to yearly_box_target, and an update whose monthly targets do not sum to the
\* submitted yearly target is answered with an error and leaves the row unchanged.
C22_TargetsSumToYearly ==
    /\ SumOver(settings.monthly_box_targets_json, MonthNameSet) = settings.yearly_box_target
    /\ (call.op = "postSettings" /\ call.result = "error") =>
          LET sent == [m \in MonthNameSet |-> OrElse(parseInt(call.body.months[m]), 0)]
          IN SumOver(sent, MonthNameSet) # call.body.yearly_box_target[2]

\* The saves in progress on a key
SavesInFlight(key) ==
    {slot \in Savers : noteSaves.inflight[slot].pc = "update"
                       /\ noteSaves.inflight[slot].key = key}

\* C23: dashboard notes are upserted per key: after any sequence or interleaving of
\* note saves from the sales and production routes there is at most one note per
\* (fy label, fy month, role), it holds the text of the most recent save to that key,
\* and a save to one key never changes the note of another key.
C23_OneNotePerKey ==
    /\ \A a \in notes, b \in notes : KeyOf(a) = KeyOf(b) => a = b
    /\ \A row \in notes : KeyOf(row) \in NoteKeys
    /\ \A key \in NoteKeys :
          /\ SavesInFlight(key) = {} => NoteOf(notes, key) = noteSaves.recent[key]
          /\ NoteOf(notes, key) \in
                {noteSaves.recent[key]}
                   \cup {noteSaves.inflight[slot].note : slot \in SavesInFlight(key)}

\* A production save is still between its two statements while a later save to the
\* same key has completed, and two other keys hold their own notes
C23_Witness ==
    LET key == [fy_label |-> NoteLabel, fy_month |-> "Feb", role |-> "production"]
    IN /\ noteSaves.inflight["tab1"].pc = "update"
       /\ noteSaves.inflight["tab1"].key = key
       /\ noteSaves.inflight["tab1"].note = <<"text", "a">>
       /\ noteSaves.inflight["tab2"].pc = "idle"
       /\ noteSaves.recent[key] = <<"text", "b">>
       /\ NoteOf(notes, key) = <<"text", "b">>
       /\ NoteOf(notes, [key EXCEPT !.role = "sales"]) = <<"text", "a">>
       /\ NoteOf(notes, [key EXCEPT !.fy_month = "Jul"]) = <<"text", "seed">>

\* C24: a dashboard note is stored under the role of the user who saves it: a sales
\* user writes only the role = 'sales' key, a production user only the
\* role = 'production' key and a director only the role = 'director' key, so a
\* director's save never overwrites the sales or the production note.
C24_SavedUnderOwnRole ==
    noteSaves.last.route # "none" => noteSaves.last.role = noteSaves.last.userRole

\* A request of a sales session that named an order of another owner
OthersOrderNamed ==
    /\ site.op \in {"form", "edit", "duplicate", "delete"}
    /\ site.session.userRole = "sales"
    /\ OrderExists(site.before, site.orderId)
    /\ site.before[site.orderId].sales_rep_id # site.session.userId

\* C25: a sales-role user never gets access to another rep's order details: for a
\* session with role 'sales' and user id u the edit form shows, the update changes
\* and the duplicate action copies only orders whose sales_rep_id = u; a request
\* naming another rep's order id is denied and changes nothing.  Only a director
\* session can delete an order.
C25_OwnOrdersOnly ==
    /\ OthersOrderNamed => site.response = "denied" /\ ordersTable = site.before
    /\ (site.op = "delete" /\ ordersTable # site.before)
          => site.session.userRole = "director"

\* The owner of every order is an account
OwnersExist ==
    \A k \in 1..Len(ordersTable) :
       ordersTable[k] # DeletedOrder =>
          \/ ordersTable[k].sales_rep_id = NoRep
          \/ \E u \in usersTable : u.id = ordersTable[k].sales_rep_id

\* A director asked for the deletion of a user and was refused
DeletionRefused == site.op = "deleteUser" /\ site.response # "success"

BoxesOfLast28Days(endDate) ==
    LET mine == {k \in 1..Len(call.stored) :
                    /\ call.session.userRole = "director"
                       \/ call.stored[k].sales_rep_id = call.session.userId
                    /\ call.stored[k].order_date > endDate - 28
                    /\ call.stored[k].order_date <= endDate}
        qty == [k \in 1..Len(call.stored) |-> call.stored[k].boxes_qty[2]]
    IN SumOver(qty, mine)

\* C26: the rolling 4-week boxes/week figure of the sales dashboard for (fy, month)
\* is one quarter of the sum of boxes_qty over all orders, in the selected month or
\* not, dated within the 28 days ending at the month's end date, a window of exactly
\* 28 calendar days, for every month including February.
C26_Rolling28Days ==
    call.op = "salesDashboard" =>
        EQ(call.metrics.shapeMetrics.rolling4WeekBoxesPerWeek,
           Quot(BoxesOfLast28Days(getFYDateRange(call.fy, call.month).end), 4))

\* The stored batches of the month shown, by their places
MonthBatches ==
    {i \in 1..Len(call.storedProduction) :
        /\ call.storedProduction[i].production_date >= ProductionRange.start
        /\ call.storedProduction[i].production_date <= ProductionRange.end}

\* The stored orders dated on or before the end of the month shown
OrdersToDate ==
    {i \in 1..Len(call.storedOrders) :
        call.storedOrders[i].order_date <= ProductionRange.end}

RECURSIVE StoredTotal(_, _, _)
StoredTotal(rows, I, field) ==
    IF I = {} THEN 0
    ELSE LET i == CHOOSE x \in I : TRUE
         IN CountOf(rows[i][field]) + StoredTotal(rows, I \ {i}, field)

\* C27: the backlog shown for a month is the boxes of all stored orders dated
\* on or before the month's end, of any financial year, minus the boxes built
\* by the batches of that month alone; it is negative when fewer were sold.
C27_Backlog ==
    call.op = "productionDashboard" =>
        call.metrics.flowMetrics.backlog =
            StoredTotal(call.storedOrders, OrdersToDate, "boxes_qty")
            - StoredTotal(call.storedProduction, MonthBatches, "boxes_built")

\* A month whose backlog is negative, counts an order of the financial year
\* before and leaves out an order of the day after its end
C27_Witness ==
    /\ call.op = "productionDashboard"
    /\ Len(call.storedOrders) = 3
    /\ OrdersToDate = {1, 2}
    /\ MonthBatches # {}
    /\ call.metrics.flowMetrics.backlog < 0

\* The tags of the stored batches of the month shown: <<i, k>> is the k-th tag
\* of the i-th stored batch
MonthTags ==
    LET TagsOf(i) ==
            LET cell == call.storedProduction[i].over_cost_reasons_json
            IN IF cell \in {Missing, <<"json", "object">>} THEN {}
               ELSE {<<i, k>> : k \in 1..Len(cell[3])}
    IN UNION {TagsOf(i) : i \in MonthBatches}

TagAt(t) == call.storedProduction[t[1]].over_cost_reasons_json[3][t[2]]

\* The name a tag goes by: a tag that names no reason goes by 'unknown'
TagName(t) == IF TagAt(t).reason = Missing THEN "unknown" ELSE TagAt(t).reason[2]

TagsNamed(name) == {t \in MonthTags : TagName(t) = name}

RECURSIVE TaggedBoxes(_)
TaggedBoxes(T) ==
    IF T = {} THEN 0
    ELSE LET t == CHOOSE x \in T : TRUE
         IN CountOf(TagAt(t).boxes) + TaggedBoxes(T \ {t})

MonthReasonNames == {TagName(t) : t \in MonthTags}

FailedRowNumbers ==
    {(k - 1) + 2 : k \in {j \in 1..Len(imp.result.outcome) : imp.result.outcome[j] = "failed"}}

\* C29: with the header as row 1, every error an import records for the data
\* row at 0-based index i names row number i + 2, in the order import and the
\* production import, transactional and upsert, for validation errors, lookup
\* misses, ids not found and database errors: the errors come in the order of
\* the rows, each names a failed row, and every failed row is named.
C29_RowNumbers ==
    ImportServed =>
        LET errors == imp.result.errors
        IN /\ \A e \in 1..Len(errors) :
                 /\ errors[e][1] = "Row"
                 /\ errors[e][2] \in FailedRowNumbers
                 /\ Len(errors[e]) = 5 => errors[e][4] = errors[e][2]
           /\ \A n \in FailedRowNumbers : \E e \in 1..Len(errors) : errors[e][2] = n
           /\ \A e, f \in 1..Len(errors) : e < f => errors[e][2] <= errors[f][2]

\* An order import whose first row is stored and whose second row fails
\* validation: its errors name row 3
C29_Witness ==
    /\ ImportServed
    /\ imp.op = "importOrders"
    /\ imp.family = "transactional"
    /\ Len(imp.result.outcome) = 2
    /\ imp.result.outcome[1] = "inserted"
    /\ imp.result.outcome[2] = "failed"
    /\ imp.result.errors # <<>>
    /\ \A e \in 1..Len(imp.result.errors) :
          imp.result.errors[e][2] = 3 /\ Len(imp.result.errors[e]) = 3

====
